---- MODULE Spec2Model ----
(***************************************************************************)
(* Model of ProcessarHomologacaoComponent                                  *)
(* (angular/src/app/modules/processar-homologacao/                         *)
(*  processar-homologacao.component.ts): the processing session            *)
(* (submit, 500 ms status polling, cleanup), the transient log and the     *)
(* calls it sends to the worker and to the configuration store, its        *)
(* initialisation and the repair of a corrupted configuration.  The store  *)
(* itself is the backend: configStore holds the document it keeps and the  *)
(* Store* operators are its operations as its contract states them.        *)
(*                                                                         *)
(* JavaScript runs every handler to its next await without interruption,   *)
(* so one action is one such run: a method from its entry to its first     *)
(* await (or its return), or the continuation that runs when an awaited    *)
(* call resolves or rejects.  Calls that are awaited are records in        *)
(* workerCalls / storeCalls until their reply is handled.                  *)
(*                                                                         *)
(* The component declares no private members: every method is callable     *)
(* from the template, from child-component events and from a test, so the  *)
(* methods below are the operations of the model.                          *)
(*                                                                         *)
(* The components beside it are modelled each in a section of its own:     *)
(* SelecionarPastaComponent (the folder-selection child, whose events the  *)
(* host handles), DadosEmpresasComponent, NavigationService with the       *)
(* sidebar, RelacaoPdfComponent and TermoReferenciaComponent.  Each has    *)
(* its own variables and its own specification.                            *)
(***************************************************************************)
EXTENDS Bags, FiniteSets, Integers, Sequences, TLC

(* ------------------------------- bounds -------------------------------- *)
\* external events in one run: method calls coming from the UI and firings
\* of interval timers (replies of awaited calls are not counted)
MaxEvents == 3
\* length of the error list of a status reply that reports errors
MaxErrors == 2
\* replies handled in one run of the store calls that log mirroring and
\* the repairs it defers lead to
MaxStoreReplies == 2
\* replies handled in one run of the store calls that initialisation and
\* the configuration methods called on their own lead to
MaxConfigReplies == 3
\* max_logs of the persisted configuration
MaxLogs == 2
\* folder selections started in one run of the directory updates
MaxSelections == 2

(* --------------------------- program constants ------------------------- *)
\* addLog: "Keep only last 100 logs"
MaxTransientLogs == 100
\* performAutomaticRepair: "Only first 10 lines" of the repair report
MaxRepairLines == 10

(* ------------------------------- inputs -------------------------------- *)
\* session ids the worker may assign
SessionIds == {"s1", "s2"}
\* a chosen PDF file, input folder and output folder
FilePath == "/a/f.pdf"
InputDir == "/a"
OutputDir == "/b"
\* JavaScript null (the "|| null" of the store calls)
Null == "<null>"
\* processingStatus before any poll
NoStatus == [none |-> TRUE]

ErrorLists == {<<>>, [i \in 1..MaxErrors |-> "e" \o ToString(i)]}

\* ProcessingStatus replies of get_processing_status
Statuses ==
  [is_processing : BOOLEAN, current_file : {"", "f.pdf"},
   processed_files : {1}, total_files : {3}, errors : ErrorLists]

\* ProcessingResult replies of the process_pdf_* commands
Results ==
  {r \in [success : BOOLEAN, session_id : {""} \cup SessionIds,
          json_file_path : {"", "/b/r.json"}] :
     r.success <=> r.json_file_path # ""}

\* addLog arguments
LogMessages == {"a"}
LogTypes == {"info", "success", "error", "progress"}

\* Errors a configuration-store call rejects with. The code only asks whether
\* message and details include certain fragments, so each text is the set of
\* those fragments it includes.
StoreErrors ==
  { [message |-> {"UTF-8"}, details |-> {}],
    [message |-> {"deserializar"}, details |-> {"licitacao360_config.json"}],
    [message |-> {"deserializar"}, details |-> {}],
    [message |-> {}, details |-> {}] }

\* what get_default_pdf_directory and get_default_output_directory return
DefaultPdfDirectory == "/default/pdf"
DefaultOutputDirectory == "/default/out"

\* appConfig before any configuration was loaded (null)
NoConfig == [none |-> TRUE]

\* ConfigResult replies of debug_and_repair_config; message as its lines
RepairResults == [success : BOOLEAN, message : {<<"config ok">>}]

\* The AppConfig document of a first run: no folder saved, no log persisted.
NewConfig ==
  [last_input_directory |-> "", last_output_directory |-> "", verbose |-> FALSE,
   processing_logs |-> <<>>, max_logs |-> MaxLogs]

(* -------------------------------- state -------------------------------- *)
VARIABLES
  selectedFile,       \* component field
  pdfDirectory,       \* component field
  outputDirectory,    \* component field
  processing,         \* component field
  processingStatus,   \* component field
  currentSessionId,   \* component field
  progressInterval,   \* component field: timer handle, 0 when undefined/null
  progressLogs,       \* component field: the transient log
  isRepairingConfig,  \* component field
  pendingRepairs,     \* setTimeout(() => performAutomaticRepair(), 100)
                      \* callbacks that have not fired yet
  appConfig,          \* component field
  configLoaded,       \* component field
  persistentLogs,     \* component field
  configStore,        \* the AppConfig document the configuration store keeps
  timers,             \* live interval timers of the runtime: [id, sessionId]
  nextTimer,          \* number of timers created so far (ids are 1, 2, ...)
  clock,              \* Date.now(): the last value read; every read is later
                      \* than the one before (submits are clicks apart)
  workerCalls,        \* bag of worker invocations awaiting their reply
  storeCalls,         \* bag of configuration-store invocations awaiting reply
  destroyed,          \* ngOnDestroy has run
  nEvents,            \* external events so far
  hist,               \* history: what happened to each session id
  lastOp,             \* history: the handler that produced this state
  isSelecting,        \* SelecionarPastaComponent field, one per instance
  dialogs,            \* folder dialogs open() is awaiting, per instance
  isProcessing,       \* DadosEmpresasComponent field
  processedCount,     \* DadosEmpresasComponent field
  pdfCount,           \* DadosEmpresasComponent field
  sicafLogs,          \* DadosEmpresasComponent field logs: newest first
  sicafCalls,         \* bag of DadosEmpresasComponent invocations in flight
  currentPageSubject,       \* NavigationService: value of the subject
  sidebarOpenSubject,       \* NavigationService: value of the subject
  sidebarCollapsedSubject,  \* NavigationService: value of the subject
  pageEmissions,      \* history: values currentPageSubject has emitted
  availablePdfFiles,  \* RelacaoPdfComponent field
  searchTerm,         \* RelacaoPdfComponent field
  selectedFiles,      \* RelacaoPdfComponent field: set of file paths
  termosReferencia,   \* TermoReferenciaComponent field
  selectedIndex,      \* TermoReferenciaComponent field (0-based, -1 none)
  editingItem,        \* TermoReferenciaComponent field
  itemEdicao,         \* TermoReferenciaComponent field
  localStorage,       \* the item 'termosReferencia' of localStorage
  editedRow,          \* history: where the row editarItem copied is now
  strayWrites         \* array properties written outside the indices

\* The state of the components and of the service that live beside
\* ProcessarHomologacaoComponent, component by component.
pastaVars == <<isSelecting, dialogs>>

sicafVars ==
  <<isProcessing, processedCount, pdfCount, sicafLogs, sicafCalls>>

navigationVars ==
  <<currentPageSubject, sidebarOpenSubject, sidebarCollapsedSubject,
    pageEmissions>>

relacaoVars == <<availablePdfFiles, searchTerm, selectedFiles>>

termoVars ==
  <<termosReferencia, selectedIndex, editingItem, itemEdicao, localStorage,
    editedRow, strayWrites>>

siblings == <<pastaVars, sicafVars, navigationVars, relacaoVars, termoVars>>

\* The state of ProcessarHomologacaoComponent, the event count and the last
\* handler apart.
homologacaoVars ==
  <<selectedFile, pdfDirectory, outputDirectory, processing, processingStatus,
    currentSessionId, progressInterval, progressLogs, isRepairingConfig,
    pendingRepairs, appConfig, configLoaded, persistentLogs, configStore,
    timers, nextTimer, clock, workerCalls, storeCalls, destroyed, hist>>

vars ==
  <<selectedFile, pdfDirectory, outputDirectory, processing, processingStatus,
    currentSessionId, progressInterval, progressLogs, isRepairingConfig,
    pendingRepairs, appConfig, configLoaded, persistentLogs, configStore,
    timers, nextTimer, clock, workerCalls, storeCalls, destroyed, nEvents,
    hist, lastOp, siblings>>

\* The fields a synchronous run of component code reads and writes, as one
\* record threaded through the statements of a handler.
Self ==
  [progressLogs |-> progressLogs, storeCalls |-> storeCalls,
   timers |-> timers, progressInterval |-> progressInterval,
   nextTimer |-> nextTimer, currentSessionId |-> currentSessionId,
   isRepairingConfig |-> isRepairingConfig,
   pendingRepairs |-> pendingRepairs,
   appConfig |-> appConfig, configLoaded |-> configLoaded,
   persistentLogs |-> persistentLogs, configStore |-> configStore,
   pdfDirectory |-> pdfDirectory, outputDirectory |-> outputDirectory,
   workerCalls |-> workerCalls]

Commit(M) ==
  /\ progressLogs' = M.progressLogs
  /\ storeCalls' = M.storeCalls
  /\ timers' = M.timers
  /\ progressInterval' = M.progressInterval
  /\ nextTimer' = M.nextTimer
  /\ currentSessionId' = M.currentSessionId
  /\ isRepairingConfig' = M.isRepairingConfig
  /\ pendingRepairs' = M.pendingRepairs
  /\ appConfig' = M.appConfig
  /\ configLoaded' = M.configLoaded
  /\ persistentLogs' = M.persistentLogs
  /\ configStore' = M.configStore

OrNull(s) == IF s = "" THEN Null ELSE s

(* ----------------------------- log aggregator -------------------------- *)
\* A mirroring call that does not look at the repair flag.
addPersistentLog_NoGate(M, message, type) ==
  [M EXCEPT !.storeCalls =
     @ (+) SetToBag({[cmd |-> "add_config_log", message |-> message,
                      logType |-> type,
                      sessionId |-> OrNull(M.currentSessionId)]})]

\* addPersistentLog up to its first await: the add_config_log invocation.
addPersistentLog(M, message, type) ==
  IF M.isRepairingConfig
    THEN M
    ELSE [M EXCEPT !.storeCalls =
            @ (+) SetToBag({[cmd |-> "add_config_log", message |-> message,
                             logType |-> type,
                             sessionId |-> OrNull(M.currentSessionId)]})]

\* A duplicate test that looks at the message only, whatever the kinds.
IsDuplicateProgress_AnyKind(logs, message, type) ==
  /\ Len(logs) > 0
  /\ logs[Len(logs)].message = message

\* "Avoid duplicate progress logs": the early return of addLog.
IsDuplicateProgress(logs, message, type) ==
  /\ type = "progress"
  /\ Len(logs) > 0
  /\ logs[Len(logs)].type = "progress"
  /\ logs[Len(logs)].message = message

\* A trim that keeps the oldest entries and drops the newest.
KeepLastLogs_KeepsOldest(logs) ==
  IF Len(logs) > MaxTransientLogs
    THEN SubSeq(logs, 1, MaxTransientLogs)
    ELSE logs

\* "Keep only last 100 logs": slice(-100) once the length exceeds 100.
KeepLastLogs(logs) ==
  IF Len(logs) > MaxTransientLogs
    THEN SubSeq(logs, Len(logs) - MaxTransientLogs + 1, Len(logs))
    ELSE logs

\* A mirroring test that lets progress entries through.
ShouldMirror_Progress(M, type) == ~M.isRepairingConfig

\* The test that guards the addPersistentLog call of addLog.
ShouldMirror(M, type) == type # "progress" /\ ~M.isRepairingConfig

\* An append that records the entry only when it is also mirrored.
PushLog_OnlyWhenMirrored(M, message, type) ==
  IF type # "progress" /\ ~M.isRepairingConfig
    THEN [M EXCEPT !.progressLogs =
            KeepLastLogs(Append(@, [message |-> message, type |-> type]))]
    ELSE M

\* progressLogs.push(logEntry) and the trim; the timestamp is not modelled.
PushLog(M, message, type) ==
  [M EXCEPT !.progressLogs =
     KeepLastLogs(Append(@, [message |-> message, type |-> type]))]

\* addLog(message, type).
addLog(M, message, type) ==
  IF IsDuplicateProgress(M.progressLogs, message, type)
    THEN M
    ELSE LET M1 == PushLog(M, message, type)
         IN IF ShouldMirror(M1, type)
              THEN addPersistentLog(M1, message, type)
              ELSE M1

(* ------------------------------ polling timer -------------------------- *)
\* A stop that clears the timer and forgets to null the handle.
stopProgressMonitoring_KeepsHandle(M) ==
  [M EXCEPT !.timers = {t \in @ : t.id # M.progressInterval}]

\* stopProgressMonitoring(): clearInterval on the handle, then null it.
stopProgressMonitoring(M) ==
  IF M.progressInterval # 0
    THEN [M EXCEPT !.timers = {t \in @ : t.id # M.progressInterval},
                   !.progressInterval = 0]
    ELSE M

\* startProgressMonitoring(sessionId): one log line, then setInterval; the
\* new handle overwrites whatever progressInterval held.
startProgressMonitoring(M, sessionId) ==
  LET M1 == addLog(M, "Monitoramento de progresso iniciado", "info")
      id == M1.nextTimer + 1
  IN [M1 EXCEPT !.timers = @ \cup {[id |-> id, sessionId |-> sessionId]},
                !.progressInterval = id,
                !.nextTimer = id]

(* ------------------------------- messages ------------------------------ *)
\* Log texts, without their emoji; counts interpolated into the submit
\* result texts (propostas.length, total_processed) are left out.
ProgressMessage(status) ==
  "Processando: " \o status.current_file \o " (" \o
  ToString(status.processed_files) \o "/" \o ToString(status.total_files) \o ")"

ErrorMessage(error) == "X " \o error

CompletionMessage == "Processamento concluido"

SubmitCommands ==
  {"process_pdf_file", "process_pdf_directory", "process_pdf_fixed_directory"}

Command(entry) ==
  CASE entry = "processFile" -> "process_pdf_file"
    [] entry = "processSinglePdfFile" -> "process_pdf_file"
    [] entry = "processDirectory" -> "process_pdf_directory"
    [] entry = "processFixedDirectory" -> "process_pdf_fixed_directory"

StartMessage(entry) ==
  CASE entry = "processFile" -> "Iniciando processamento do arquivo..."
    [] entry = "processSinglePdfFile" -> "Processando arquivo: f.pdf"
    [] entry = "processDirectory" -> "Iniciando processamento da pasta..."
    [] entry = "processFixedDirectory" -> "Iniciando processamento da pasta PDF..."

RejectMessage(entry) ==
  IF entry = "processDirectory"
    THEN "Pasta ou pasta de saida nao selecionadas"
    ELSE "Arquivo ou pasta de saida nao selecionados"

(* ---------------------------- session manager -------------------------- *)
\* A guard that forgets the output folder.
RequiredPathsMissing_IgnoresOutput(entry, fileInfo) ==
  CASE entry = "processFile" -> selectedFile = ""
    [] entry = "processDirectory" -> pdfDirectory = ""
    [] entry = "processSinglePdfFile" -> fileInfo = Null
    [] entry = "processFixedDirectory" -> FALSE

\* The guard that opens each submit method; processFixedDirectory has none.
RequiredPathsMissing(entry, fileInfo) ==
  CASE entry = "processFile" -> selectedFile = "" \/ outputDirectory = ""
    [] entry = "processDirectory" -> pdfDirectory = "" \/ outputDirectory = ""
    [] entry = "processSinglePdfFile" -> fileInfo = Null \/ outputDirectory = ""
    [] entry = "processFixedDirectory" -> FALSE

\* The session_id argument: only the directory commands pass the provisional id.
SubmitSessionArg(entry, provisional) ==
  IF entry \in {"processDirectory", "processFixedDirectory"}
    THEN provisional
    ELSE Null

\* A submit method from its entry to the await of the worker call.
Submit(entry, fileInfo) ==
  /\ ~destroyed
  /\ nEvents < MaxEvents
  /\ nEvents' = nEvents + 1
  /\ lastOp' = [op |-> entry, fileInfo |-> fileInfo]
  /\ IF RequiredPathsMissing(entry, fileInfo)
       THEN /\ Commit(addLog(Self, RejectMessage(entry), "error"))
            /\ UNCHANGED <<siblings, processing, clock, workerCalls>>
       ELSE LET now == clock + 1
                M1 == [Self EXCEPT !.progressLogs = <<>>,
                                     !.currentSessionId = ToString(now)]
                M2 == addLog(M1, StartMessage(entry), "info")
                call == [cmd |-> Command(entry), entry |-> entry,
                         session_id |-> SubmitSessionArg(entry, ToString(now))]
            IN /\ processing' = TRUE
               /\ clock' = now
               /\ Commit(M2)
               /\ workerCalls' = workerCalls (+) SetToBag({call})
  /\ UNCHANGED <<siblings, selectedFile, pdfDirectory, outputDirectory, processingStatus,
                 destroyed, hist>>

processFile == Submit("processFile", Null)

processDirectory == Submit("processDirectory", Null)

processFixedDirectory == Submit("processFixedDirectory", Null)

processSinglePdfFile == \E fileInfo \in {Null, FilePath} : Submit("processSinglePdfFile", fileInfo)

\* The log lines of a resolved submit, per method.
ResultLogs(M, entry, result) ==
  LET isDir == entry \in {"processDirectory", "processFixedDirectory"}
      M1 == IF isDir
              THEN addLog(addLog(M, "Pasta processada com sucesso", "success"),
                          "Total de propostas", "success")
              ELSE addLog(M, "Arquivo processado com sucesso", "success")
      M2 == IF result.json_file_path # ""
              THEN addLog(M1, "Arquivo JSON salvo em: " \o result.json_file_path, "success")
              ELSE M1
  IN IF result.success
       THEN M2
       ELSE addLog(M, "Erro no processamento", "error")

\* The worker call of a submit resolves: the rest of the try block, then finally.
SubmitResolved ==
  \E call \in BagToSet(workerCalls), result \in Results :
    /\ call.cmd \in SubmitCommands
    /\ LET M1 == IF result.session_id # ""
                   THEN startProgressMonitoring(
                          [Self EXCEPT !.currentSessionId = result.session_id],
                          result.session_id)
                   ELSE Self
           M2 == ResultLogs(M1, call.entry, result)
           M3 == stopProgressMonitoring(M2)
       IN Commit(M3)
    /\ processing' = FALSE
    /\ workerCalls' = workerCalls (-) SetToBag({call})
    /\ hist' = IF result.session_id # ""
                 THEN [hist EXCEPT !.acked = @ \cup {result.session_id}]
                 ELSE hist
    /\ lastOp' = [op |-> "submitResolved", call |-> call, result |-> result]
    /\ UNCHANGED <<siblings, selectedFile, pdfDirectory, outputDirectory, processingStatus,
                   clock, destroyed, nEvents>>

\* The worker call of a submit rejects: the catch block, then finally.
SubmitRejected ==
  \E call \in BagToSet(workerCalls) :
    /\ call.cmd \in SubmitCommands
    /\ LET text == IF call.entry = "processFixedDirectory"
                     THEN "Erro durante o processamento da pasta PDF"
                     ELSE "Erro durante o processamento"
       IN Commit(stopProgressMonitoring(addLog(Self, text, "error")))
    /\ processing' = FALSE
    /\ workerCalls' = workerCalls (-) SetToBag({call})
    /\ lastOp' = [op |-> "submitRejected", call |-> call]
    /\ UNCHANGED <<siblings, selectedFile, pdfDirectory, outputDirectory, processingStatus,
                   clock, destroyed, nEvents, hist>>

\* startProgressMonitoring(sessionId) called on its own.
StartProgressMonitoring ==
  \E sessionId \in SessionIds :
    /\ ~destroyed
    /\ nEvents < MaxEvents
    /\ nEvents' = nEvents + 1
    /\ Commit(startProgressMonitoring(Self, sessionId))
    /\ lastOp' = [op |-> "startProgressMonitoring", sessionId |-> sessionId]
    /\ UNCHANGED <<siblings, selectedFile, pdfDirectory, outputDirectory, processing,
                   processingStatus, clock, workerCalls, destroyed, hist>>

\* stopProgressMonitoring() called on its own (the cancel operation).
StopProgressMonitoring ==
  /\ ~destroyed
  /\ nEvents < MaxEvents
  /\ nEvents' = nEvents + 1
  /\ Commit(stopProgressMonitoring(Self))
  /\ hist' = [hist EXCEPT !.cancelled = TRUE]
  /\ lastOp' = [op |-> "stopProgressMonitoring", handle |-> progressInterval]
  /\ UNCHANGED <<siblings, selectedFile, pdfDirectory, outputDirectory, processing,
                 processingStatus, clock, workerCalls, destroyed>>

\* ngOnDestroy(): the component is torn down; no UI operation follows, but
\* pending replies and timers the handle no longer names still run.
ngOnDestroy ==
  /\ ~destroyed
  /\ nEvents < MaxEvents
  /\ nEvents' = nEvents + 1
  /\ destroyed' = TRUE
  /\ Commit(stopProgressMonitoring(Self))
  /\ hist' = [hist EXCEPT !.cancelled = TRUE]
  /\ lastOp' = [op |-> "ngOnDestroy", handle |-> progressInterval]
  /\ UNCHANGED <<siblings, selectedFile, pdfDirectory, outputDirectory, processing,
                 processingStatus, clock, workerCalls>>

\* The setInterval callback up to its await: one get_processing_status call
\* for the session id the callback closed over.
PollTick ==
  \E t \in timers :
    /\ nEvents < MaxEvents
    /\ nEvents' = nEvents + 1
    /\ workerCalls' = workerCalls (+)
         SetToBag({[cmd |-> "get_processing_status", timer |-> t.id,
                    session_id |-> t.sessionId]})
    /\ lastOp' = [op |-> "pollTick", timer |-> t.id, session_id |-> t.sessionId]
    /\ UNCHANGED <<siblings, selectedFile, pdfDirectory, outputDirectory, processing,
                   processingStatus, currentSessionId, progressInterval,
                   progressLogs, isRepairingConfig, pendingRepairs, appConfig,
                   configLoaded, persistentLogs, configStore, timers,
                   nextTimer, clock, storeCalls, destroyed, hist>>

\* A terminal test that also ends the session on a reported error.
StatusEndsSession_OnErrors(status) ==
  ~status.is_processing \/ status.errors # <<>>

\* "Se o processamento terminou"
StatusEndsSession(status) == ~status.is_processing

\* for (const error of status.errors) addLog(error, 'error')
RECURSIVE LogErrors(_, _)
LogErrors(M, errors) ==
  IF errors = <<>>
    THEN M
    ELSE LogErrors(addLog(M, ErrorMessage(Head(errors)), "error"), Tail(errors))

\* The status call of a tick resolves: the rest of the callback's try block,
\* up to the await of clear_processing_state when the status is terminal.
PollResolved ==
  \E call \in BagToSet(workerCalls), status \in Statuses :
    /\ call.cmd = "get_processing_status"
    /\ processingStatus' = status
    /\ LET M1 == IF status.current_file # ""
                   THEN addLog(Self, ProgressMessage(status), "progress")
                   ELSE Self
           M2 == LogErrors(M1, status.errors)
           M3 == addLog(stopProgressMonitoring(M2), CompletionMessage, "success")
           cleanup == [cmd |-> "clear_processing_state",
                       session_id |-> call.session_id,
                       handleAtIssue |-> M3.progressInterval]
       IN IF StatusEndsSession(status)
            THEN /\ Commit(M3)
                 /\ workerCalls' = (workerCalls (-) SetToBag({call})) (+) SetToBag({cleanup})
                 /\ hist' = [hist EXCEPT !.completions[call.session_id] = @ + 1,
                                         !.cleanups[call.session_id] = @ + 1]
            ELSE /\ Commit(M2)
                 /\ workerCalls' = workerCalls (-) SetToBag({call})
                 /\ hist' = hist
    /\ lastOp' = [op |-> "pollResolved", call |-> call, status |-> status]
    /\ UNCHANGED <<siblings, selectedFile, pdfDirectory, outputDirectory, processing,
                   clock, destroyed, nEvents>>

\* The status call of a tick rejects: the callback's catch block.
PollRejected ==
  \E call \in BagToSet(workerCalls) :
    /\ call.cmd = "get_processing_status"
    /\ Commit(stopProgressMonitoring(Self))
    /\ workerCalls' = workerCalls (-) SetToBag({call})
    /\ hist' = [hist EXCEPT !.failed = @ \cup {call.session_id}]
    /\ lastOp' = [op |-> "pollRejected", call |-> call]
    /\ UNCHANGED <<siblings, selectedFile, pdfDirectory, outputDirectory, processing,
                   processingStatus, clock, destroyed, nEvents>>

\* clear_processing_state resolves or rejects: nothing follows either way
\* (the rejection is only written to the console).
CleanupSettled ==
  \E call \in BagToSet(workerCalls), ok \in BOOLEAN :
    /\ call.cmd = "clear_processing_state"
    /\ workerCalls' = workerCalls (-) SetToBag({call})
    /\ lastOp' = [op |-> "cleanupSettled", call |-> call, ok |-> ok]
    /\ UNCHANGED <<siblings, selectedFile, pdfDirectory, outputDirectory, processing,
                   processingStatus, currentSessionId, progressInterval,
                   progressLogs, isRepairingConfig, pendingRepairs, appConfig,
                   configLoaded, persistentLogs, configStore, timers,
                   nextTimer, clock, storeCalls, destroyed, nEvents, hist>>

(* --------------------------- choosing the paths ------------------------ *)
\* updateDirectoriesConfig() up to its await of update_config_directories.
updateDirectoriesConfig(M, pdfDir, outputDir) ==
  LET M1 == addLog(M, "Salvando configuracao de pastas...", "info")
      M2 == addLog(M1, "  PDF: " \o pdfDir, "info")
      M3 == addLog(M2, "  Resultados: " \o outputDir, "info")
  IN [M3 EXCEPT !.storeCalls =
        @ (+) SetToBag({[cmd |-> "update_config_directories",
                         input_dir |-> OrNull(pdfDir),
                         output_dir |-> OrNull(outputDir)]})]

\* onPdfDirectoryChanged(newPath), the event of the folder-selection child.
onPdfDirectoryChanged ==
  /\ ~destroyed
  /\ nEvents < MaxEvents
  /\ nEvents' = nEvents + 1
  /\ pdfDirectory' = InputDir
  /\ Commit(addLog(updateDirectoriesConfig(Self, InputDir, outputDirectory),
                   "Pasta PDF atualizada: " \o InputDir, "success"))
  /\ lastOp' = [op |-> "onPdfDirectoryChanged"]
  /\ UNCHANGED <<siblings, selectedFile, outputDirectory, processing, processingStatus,
                 clock, workerCalls, destroyed, hist>>

\* onOutputDirectoryChanged(newPath), the event of the folder-selection child.
onOutputDirectoryChanged ==
  /\ ~destroyed
  /\ nEvents < MaxEvents
  /\ nEvents' = nEvents + 1
  /\ outputDirectory' = OutputDir
  /\ Commit(addLog(updateDirectoriesConfig(Self, pdfDirectory, OutputDir),
                   "Pasta de resultados atualizada: " \o OutputDir, "success"))
  /\ lastOp' = [op |-> "onOutputDirectoryChanged"]
  /\ UNCHANGED <<siblings, selectedFile, pdfDirectory, processing, processingStatus,
                 clock, workerCalls, destroyed, hist>>

\* selectFile() after its dialog resolved with a path.
selectFile ==
  /\ ~destroyed
  /\ nEvents < MaxEvents
  /\ nEvents' = nEvents + 1
  /\ selectedFile' = FilePath
  /\ Commit(addLog(Self, "Arquivo selecionado: " \o FilePath, "info"))
  /\ lastOp' = [op |-> "selectFile"]
  /\ UNCHANGED <<siblings, pdfDirectory, outputDirectory, processing, processingStatus,
                 clock, workerCalls, destroyed, hist>>

(* -------------------------- configuration store ------------------------ *)
\* appConfig?.field: undefined, which is falsy, when there is no appConfig
ConfigField(config, field) == IF config = NoConfig THEN "" ELSE config[field]

TrimLogs(logs, n) ==
  IF Len(logs) > n THEN SubSeq(logs, Len(logs) - n + 1, Len(logs)) ELSE logs

\* AppendLog of the store: load, append, trim to max_logs, save, as one unit.
StoreAppendLog(config, entry) ==
  [config EXCEPT !.processing_logs = TrimLogs(Append(@, entry), config.max_logs)]

\* Save of the store: the document is kept, its log trimmed to max_logs.
StoreSave(config) ==
  [config EXCEPT !.processing_logs = TrimLogs(@, config.max_logs)]

\* ClearLogs of the store.
StoreClearLogs(config) == [config EXCEPT !.processing_logs = <<>>]

\* error?.message?.includes(part), error?.details?.includes(part)
Includes(text, part) == part \in text

\* A classification that takes any deserialization message for corruption,
\* whatever file the details name.
IsCorruption_AnyFile(error) ==
  \/ Includes(error.message, "UTF-8")
  \/ Includes(error.message, "deserializar")
  \/ Includes(error.message, "trailing characters")

isUtf8Error(error) == Includes(error.message, "UTF-8")

isDeserializationError(error) ==
  /\ Includes(error.details, "licitacao360_config.json")
  /\ \/ Includes(error.message, "deserializar")
     \/ Includes(error.message, "trailing characters")

\* isUtf8Error || isDeserializationError, in addPersistentLog and in
\* loadConfiguration
IsCorruption(error) == isUtf8Error(error) \/ isDeserializationError(error)

\* isConfigError, the test of the catch block of initializeConfiguration
isConfigError(error) ==
  \/ Includes(error.details, "licitacao360_config.json")
  \/ Includes(error.message, "UTF-8")
  \/ Includes(error.message, "deserializar")
  \/ Includes(error.message, "trailing characters")

Invoke(M, call) == [M EXCEPT !.storeCalls = @ (+) SetToBag({call})]

InvokeWorker(M, call) == [M EXCEPT !.workerCalls = @ (+) SetToBag({call})]

\* A repair entry that does not look at the flag.
performAutomaticRepair_NoGate(M, caller) ==
  Invoke(addLog([M EXCEPT !.isRepairingConfig = TRUE],
                "Executando reparo automatico da configuracao...", "info"),
         [cmd |-> "debug_and_repair_config", from |-> "performAutomaticRepair",
          caller |-> caller])

\* performAutomaticRepair() up to its await of debug_and_repair_config; caller
\* names who awaits the promise it returns.
performAutomaticRepair(M, caller) ==
  IF M.isRepairingConfig
    THEN M
    ELSE Invoke(addLog([M EXCEPT !.isRepairingConfig = TRUE],
                       "Executando reparo automatico da configuracao...", "info"),
                [cmd |-> "debug_and_repair_config",
                 from |-> "performAutomaticRepair", caller |-> caller])

\* A finally block that leaves the flag as it is.
ClearRepairFlag_Keeps(M) == M

\* finally { this.isRepairingConfig = false; }
ClearRepairFlag(M) == [M EXCEPT !.isRepairingConfig = FALSE]

\* repairConfiguration() up to its await of debug_and_repair_config.
repairConfiguration(M, caller) ==
  Invoke(addLog(M, "Detectado problema na configuracao, tentando reparar...", "info"),
         [cmd |-> "debug_and_repair_config", from |-> "repairConfiguration",
          caller |-> caller])

\* loadConfiguration() up to its await of load_app_config; from is the method
\* that calls it and caller the outermost method awaiting the outcome.
loadConfiguration(M, from, caller) ==
  Invoke(M, [cmd |-> "load_app_config", from |-> from, caller |-> caller])

\* for (const line of lines) if (line.trim()) addLog("  " + line.trim(), 'info')
RECURSIVE LogLines(_, _)
LogLines(M, lines) ==
  IF lines = <<>>
    THEN M
    ELSE LogLines(IF Head(lines) # "" THEN addLog(M, "  " \o Head(lines), "info") ELSE M,
                  Tail(lines))

FirstLines(lines, n) == SubSeq(lines, 1, IF Len(lines) < n THEN Len(lines) ELSE n)

(* ---------------------------- initialisation --------------------------- *)
\* The last three log calls of initializeConfiguration.
FinishInitialization(M) ==
  LET M1 == addLog(M, "Configuracao completa:", "success")
      M2 == addLog(M1, "  PDF: " \o M.pdfDirectory, "info")
  IN addLog(M2, "  Resultados: " \o M.outputDirectory, "info")

\* loadPdfFilesList() as initializeConfiguration awaits it: up to its await of
\* list_pdf_files, or through its early return.
loadPdfFilesList(M) ==
  IF M.pdfDirectory = ""
    THEN FinishInitialization(addLog(M, "Pasta PDF nao definida", "error"))
    ELSE InvokeWorker(addLog(M, "Carregando arquivos PDF da pasta: " \o M.pdfDirectory,
                             "info"),
                      [cmd |-> "list_pdf_files", directory |-> M.pdfDirectory])

\* "Load verbose setting", "Load persistent logs", "Load PDF files list"
LoadSettings(M) ==
  IF M.appConfig = NoConfig
    THEN loadPdfFilesList(M)
    ELSE LET M1 == addLog(M, IF M.appConfig.verbose THEN "Modo verbose: ativado"
                                                    ELSE "Modo verbose: desativado",
                          "info")
             M2 == [M1 EXCEPT !.persistentLogs = M.appConfig.processing_logs]
         IN loadPdfFilesList(
              addLog(M2, ToString(Len(M2.persistentLogs))
                           \o " logs historicos carregados", "info"))

\* A resolution that asks the worker for its default whatever was saved.
ResolveOutputDirectory_AlwaysDefault(M) ==
  InvokeWorker(M, [cmd |-> "get_default_output_directory"])

\* "Set directories from config or defaults", the results folder.
ResolveOutputDirectory(M) ==
  IF ConfigField(M.appConfig, "last_output_directory") # ""
    THEN LoadSettings(
           addLog([M EXCEPT !.outputDirectory = M.appConfig.last_output_directory],
                  "Usando pasta resultados salva: "
                    \o M.appConfig.last_output_directory, "success"))
    ELSE InvokeWorker(M, [cmd |-> "get_default_output_directory"])

\* "Set directories from config or defaults", the PDF folder.
ResolveInputDirectory(M) ==
  IF ConfigField(M.appConfig, "last_input_directory") # ""
    THEN ResolveOutputDirectory(
           addLog([M EXCEPT !.pdfDirectory = M.appConfig.last_input_directory],
                  "Usando pasta PDF salva: " \o M.appConfig.last_input_directory,
                  "success"))
    ELSE InvokeWorker(M, [cmd |-> "get_default_pdf_directory"])

\* "Get directory information (only if initialization was successful)"
DirectoriesInfo(M, initializationSuccess) ==
  IF initializationSuccess
    THEN InvokeWorker(M, [cmd |-> "get_app_directories_info"])
    ELSE ResolveInputDirectory(M)

\* "Load configuration if not already loaded"
LoadIfNotLoaded(M, initializationSuccess) ==
  IF ~M.configLoaded
    THEN loadConfiguration(M, "initializeConfiguration", "initializeConfiguration")
    ELSE DirectoriesInfo(M, initializationSuccess)

\* if (result.success) { addLog(...); if (result.config) { ... } }
ApplyInitResult(M, result, text) ==
  IF result.success
    THEN LET M1 == addLog(M, text, "success")
         IN IF result.config = NoConfig
              THEN M1
              ELSE [M1 EXCEPT !.appConfig = result.config, !.configLoaded = TRUE]
    ELSE M

\* A display that shows the transient log in place of the persisted one.
DisplayLogs_ShowsTransient(M) ==
  IF M.appConfig = NoConfig THEN M ELSE [M EXCEPT !.persistentLogs = M.progressLogs]

\* if (this.appConfig?.processing_logs) this.persistentLogs = ... in
\* addPersistentLog
DisplayLogs(M) ==
  IF M.appConfig = NoConfig
    THEN M
    ELSE [M EXCEPT !.persistentLogs = M.appConfig.processing_logs]

\* updateDirectoriesConfig() after its reload: the paths of the reloaded
\* document are compared with the paths of the component.
VerifyPaths(M) ==
  IF /\ ConfigField(M.appConfig, "last_input_directory") = M.pdfDirectory
     /\ ConfigField(M.appConfig, "last_output_directory") = M.outputDirectory
    THEN addLog(M, "Paths verificados e persistidos corretamente", "success")
    ELSE LET M1 == addLog(M, "Possivel problema na persistencia dos paths",
                          "error")
             M2 == addLog(M1, "  Salvo PDF: " \o
                              ConfigField(M.appConfig, "last_input_directory"),
                          "info")
             M3 == addLog(M2, "  Atual PDF: " \o M.pdfDirectory, "info")
             M4 == addLog(M3, "  Salvo Resultados: " \o
                              ConfigField(M.appConfig, "last_output_directory"),
                          "info")
         IN addLog(M4, "  Atual Resultados: " \o M.outputDirectory, "info")

\* What the method that awaited a configuration load does when the load, with
\* the repair and reload it may have led to, has returned. initializeConfiguration
\* loads only when configLoaded is false, and then initializationSuccess is
\* false as well: the two are set together.
AfterLoad(M, caller) ==
  CASE caller = "addPersistentLog" -> DisplayLogs(M)
    [] caller = "initializeConfiguration" -> DirectoriesInfo(M, FALSE)
    [] caller = "updateDirectoriesConfig" -> VerifyPaths(M)
    [] OTHER -> M

\* What the method that awaited performAutomaticRepair does next: the retry
\* of initializeConfiguration.
AfterRepair(M, caller) ==
  IF caller = "initializeConfiguration"
    THEN Invoke(M, [cmd |-> "initialize_application", attempt |-> 2])
    ELSE M

\* The reply budget a call draws on: the calls of initialisation and of the
\* configuration methods called on their own have a budget of their own.
MirrorCallers == {"addPersistentLog", "setTimeout", "none"}

CanReply(call) ==
  IF call.caller \in MirrorCallers
    THEN hist.storeReplies < MaxStoreReplies
    ELSE hist.configReplies < MaxConfigReplies

Replied(call) ==
  IF call.caller \in MirrorCallers
    THEN [hist EXCEPT !.storeReplies = @ + 1]
    ELSE [hist EXCEPT !.configReplies = @ + 1]

\* Commit for the handlers that may run a part of initializeConfiguration.
CommitAll(M) ==
  /\ Commit(M)
  /\ pdfDirectory' = M.pdfDirectory
  /\ outputDirectory' = M.outputDirectory
  /\ workerCalls' = M.workerCalls

\* History: the call repeats the last entry, a progress entry with the same
\* message, and is therefore not an accepted entry.
RepeatsLastProgress(logs, message, type) ==
  /\ type = "progress"
  /\ Len(logs) > 0
  /\ logs[Len(logs)] = [message |-> message, type |-> "progress"]

\* addLog(message, type) called on its own; hist.accepted lists the entries
\* such calls were to accept.
AddLog ==
  \E message \in LogMessages, type \in LogTypes :
    /\ ~destroyed
    /\ nEvents < MaxEvents
    /\ nEvents' = nEvents + 1
    /\ Commit(addLog(Self, message, type))
    /\ hist' = [hist EXCEPT !.accepted =
                  IF RepeatsLastProgress(progressLogs, message, type)
                    THEN @
                    ELSE Append(@, [message |-> message, type |-> type])]
    /\ lastOp' = [op |-> "addLog", message |-> message, type |-> type,
                  duplicate |-> RepeatsLastProgress(progressLogs, message, type)]
    /\ UNCHANGED <<siblings, selectedFile, pdfDirectory, outputDirectory, processing,
                   processingStatus, clock, workerCalls, destroyed>>

\* addPersistentLog(message, type) called on its own.
AddPersistentLog ==
  \E message \in LogMessages, type \in LogTypes :
    /\ ~destroyed
    /\ nEvents < MaxEvents
    /\ nEvents' = nEvents + 1
    /\ Commit(addPersistentLog(Self, message, type))
    /\ lastOp' = [op |-> "addPersistentLog", message |-> message, type |-> type]
    /\ UNCHANGED <<siblings, selectedFile, pdfDirectory, outputDirectory, processing,
                   processingStatus, clock, workerCalls, destroyed, hist>>

\* add_config_log resolves: the store has appended the entry, and
\* addPersistentLog goes on to reload the configuration ("Reload configuration
\* to get updated logs").
MirrorResolved ==
  \E call \in BagToSet(storeCalls) :
    /\ call.cmd = "add_config_log"
    /\ hist.storeReplies < MaxStoreReplies
    /\ Commit(loadConfiguration(
                [Self EXCEPT !.storeCalls = @ (-) SetToBag({call}),
                             !.configStore =
                                StoreAppendLog(@, [message |-> call.message,
                                                   type |-> call.logType])],
                "addPersistentLog", "addPersistentLog"))
    /\ hist' = [hist EXCEPT !.storeReplies = @ + 1]
    /\ lastOp' = [op |-> "mirrorResolved", call |-> call]
    /\ UNCHANGED <<siblings, selectedFile, pdfDirectory, outputDirectory, processing,
                   processingStatus, clock, workerCalls, destroyed, nEvents>>

\* add_config_log rejects: the catch block of addPersistentLog, which writes
\* to the console and, for a corrupted file, defers a repair.
MirrorRejected ==
  \E call \in BagToSet(storeCalls), error \in StoreErrors :
    /\ call.cmd = "add_config_log"
    /\ hist.storeReplies < MaxStoreReplies
    /\ LET M1 == [Self EXCEPT !.storeCalls = @ (-) SetToBag({call})]
       IN IF IsCorruption(error) /\ ~M1.isRepairingConfig
            THEN Commit([M1 EXCEPT !.pendingRepairs = @ + 1])
            ELSE Commit(M1)
    /\ hist' = [hist EXCEPT !.storeReplies = @ + 1]
    /\ lastOp' = [op |-> "mirrorRejected", call |-> call, error |-> error]
    /\ UNCHANGED <<siblings, selectedFile, pdfDirectory, outputDirectory, processing,
                   processingStatus, clock, workerCalls, destroyed, nEvents>>

\* load_app_config resolves with the stored document: the try block of
\* loadConfiguration, then the method that awaited the load.
LoadResolved ==
  \E call \in BagToSet(storeCalls) :
    /\ call.cmd = "load_app_config"
    /\ CanReply(call)
    /\ CommitAll(AfterLoad([Self EXCEPT !.storeCalls = @ (-) SetToBag({call}),
                                        !.appConfig = configStore,
                                        !.configLoaded = TRUE],
                           call.caller))
    /\ hist' = Replied(call)
    /\ lastOp' = [op |-> "loadResolved", call |-> call]
    /\ UNCHANGED <<siblings, selectedFile, processing, processingStatus, clock, destroyed,
                   nEvents>>

\* load_app_config rejects: the catch block of loadConfiguration.
LoadRejected ==
  \E call \in BagToSet(storeCalls), error \in StoreErrors :
    /\ call.cmd = "load_app_config"
    /\ CanReply(call)
    /\ LET M1 == [Self EXCEPT !.storeCalls = @ (-) SetToBag({call}),
                              !.configLoaded = FALSE]
           text == IF isUtf8Error(error)
                     THEN "Arquivo de configuracao contem dados UTF-8 invalidos"
                     ELSE "Arquivo de configuracao corrompido detectado"
       IN IF IsCorruption(error)
            THEN CommitAll(repairConfiguration(addLog(M1, text, "error"),
                                               call.caller))
            ELSE CommitAll(AfterLoad(addLog(M1, "Erro ao carregar configuracao",
                                            "error"),
                                     call.caller))
    /\ hist' = Replied(call)
    /\ lastOp' = [op |-> "loadRejected", call |-> call, error |-> error]
    /\ UNCHANGED <<siblings, selectedFile, processing, processingStatus, clock, destroyed,
                   nEvents>>

\* The callback of setTimeout(() => this.performAutomaticRepair(), 100) fires.
RepairTimeout ==
  /\ pendingRepairs > 0
  /\ Commit(performAutomaticRepair([Self EXCEPT !.pendingRepairs = @ - 1],
                                   "setTimeout"))
  /\ lastOp' = [op |-> "performAutomaticRepair", deferred |-> TRUE,
                skipped |-> isRepairingConfig]
  /\ UNCHANGED <<siblings, selectedFile, pdfDirectory, outputDirectory, processing,
                 processingStatus, clock, workerCalls, destroyed, nEvents, hist>>

\* performAutomaticRepair() called on its own.
PerformAutomaticRepair ==
  /\ ~destroyed
  /\ nEvents < MaxEvents
  /\ nEvents' = nEvents + 1
  /\ Commit(performAutomaticRepair(Self, "none"))
  /\ lastOp' = [op |-> "performAutomaticRepair", deferred |-> FALSE,
                skipped |-> isRepairingConfig]
  /\ UNCHANGED <<siblings, selectedFile, pdfDirectory, outputDirectory, processing,
                 processingStatus, clock, workerCalls, destroyed, hist>>

\* The success branch of the three methods that await debug_and_repair_config:
\* the log calls, all lines of the message or, in performAutomaticRepair, the
\* first ten.
RepairSucceeded(M, call, result) ==
  CASE call.from = "performAutomaticRepair" ->
         LET A1 == addLog(M, "Reparo automatico executado com sucesso", "success")
             A2 == LogLines(A1, FirstLines(result.message, MaxRepairLines))
         IN IF Len(result.message) > MaxRepairLines
              THEN addLog(A2, "  ... (detalhes completos disponiveis no console)",
                          "info")
              ELSE A2
    [] call.from = "repairConfiguration" ->
         loadConfiguration(
           LogLines(addLog(M, "Configuracao reparada com sucesso", "success"),
                    result.message),
           "repairConfiguration", call.caller)
    [] call.from = "debugAndRepairConfig" ->
         loadConfiguration(
           LogLines(addLog(M, "Debug e reparo executados com sucesso", "success"),
                    result.message),
           "debugAndRepairConfig", call.caller)

\* The else branch of if (result.success).
RepairFailed(M, call) ==
  CASE call.from = "performAutomaticRepair" ->
         addLog(M, "Falha no reparo automatico", "error")
    [] call.from = "repairConfiguration" ->
         AfterLoad(addLog(M, "Falha ao reparar configuracao", "error"), call.caller)
    [] call.from = "debugAndRepairConfig" ->
         addLog(M, "Falha no debug e reparo", "error")

\* The catch block of the three methods.
RepairThrew(M, call) ==
  CASE call.from = "performAutomaticRepair" ->
         addLog(M, "Erro critico no reparo automatico", "error")
    [] call.from = "repairConfiguration" ->
         AfterLoad(addLog(M, "Erro critico ao reparar configuracao", "error"),
                   call.caller)
    [] call.from = "debugAndRepairConfig" ->
         addLog(M, "Erro critico no debug e reparo", "error")

\* After the try statement: the finally block of performAutomaticRepair and
\* the method that awaited it.
RepairSettled(M, call) ==
  IF call.from = "performAutomaticRepair"
    THEN AfterRepair(ClearRepairFlag(M), call.caller)
    ELSE M

\* debug_and_repair_config resolves: the rest of the try block of
\* performAutomaticRepair (then its finally), of repairConfiguration or of
\* debugAndRepairConfig.
RepairResolved ==
  \E call \in BagToSet(storeCalls), result \in RepairResults :
    /\ call.cmd = "debug_and_repair_config"
    /\ CanReply(call)
    /\ LET M1 == [Self EXCEPT !.storeCalls = @ (-) SetToBag({call})]
       IN CommitAll(RepairSettled(IF result.success
                                    THEN RepairSucceeded(M1, call, result)
                                    ELSE RepairFailed(M1, call),
                                  call))
    /\ hist' = Replied(call)
    /\ lastOp' = [op |-> "repairResolved", call |-> call, result |-> result]
    /\ UNCHANGED <<siblings, selectedFile, processing, processingStatus, clock, destroyed,
                   nEvents>>

\* debug_and_repair_config rejects: the catch block of the method that awaits
\* it (then, in performAutomaticRepair, its finally).
RepairRejected ==
  \E call \in BagToSet(storeCalls) :
    /\ call.cmd = "debug_and_repair_config"
    /\ CanReply(call)
    /\ CommitAll(RepairSettled(
                   RepairThrew([Self EXCEPT !.storeCalls = @ (-) SetToBag({call})],
                               call),
                   call))
    /\ hist' = Replied(call)
    /\ lastOp' = [op |-> "repairRejected", call |-> call]
    /\ UNCHANGED <<siblings, selectedFile, processing, processingStatus, clock, destroyed,
                   nEvents>>

(* ------------------------ initializeConfiguration ---------------------- *)
\* ngOnInit(): initializeConfiguration() up to its await of
\* initialize_application.
ngOnInit ==
  /\ ~destroyed
  /\ ~hist.initialized
  /\ Commit(Invoke(addLog(Self, "Inicializando aplicacao...", "info"),
                   [cmd |-> "initialize_application", attempt |-> 1]))
  /\ hist' = [hist EXCEPT !.initialized = TRUE]
  /\ lastOp' = [op |-> "ngOnInit"]
  /\ UNCHANGED <<siblings, selectedFile, pdfDirectory, outputDirectory, processing,
                 processingStatus, clock, workerCalls, destroyed, nEvents>>

\* The ConfigResult replies of initialize_application over a stored document.
InitResults(config) ==
  {[success |-> TRUE, config |-> config], [success |-> TRUE, config |-> NoConfig],
   [success |-> FALSE, config |-> NoConfig]}

\* initialize_application resolves, at the first attempt or at the retry.
InitResolved ==
  \E call \in BagToSet(storeCalls) :
    \E result \in InitResults(configStore) :
      /\ call.cmd = "initialize_application"
      /\ LET M1 == [Self EXCEPT !.storeCalls = @ (-) SetToBag({call})]
             text == IF call.attempt = 1
                       THEN "Aplicacao inicializada com sucesso"
                       ELSE "Aplicacao inicializada com sucesso apos reparo"
         IN CommitAll(LoadIfNotLoaded(ApplyInitResult(M1, result, text),
                                      result.success /\ result.config # NoConfig))
      /\ lastOp' = [op |-> "initResolved", call |-> call, result |-> result]
      /\ UNCHANGED <<siblings, selectedFile, processing, processingStatus, clock, destroyed,
                     nEvents, hist>>

\* initialize_application rejects: at the first attempt the catch block with
\* the corruption test, at the retry catch (repairError).
InitRejected ==
  \E call \in BagToSet(storeCalls), error \in StoreErrors :
    /\ call.cmd = "initialize_application"
    /\ LET M1 == [Self EXCEPT !.storeCalls = @ (-) SetToBag({call})]
           M2 == addLog(M1, "Configuracao corrompida detectada, executando reparo automatico...",
                        "error")
           M3 == performAutomaticRepair(M2, "initializeConfiguration")
       IN CommitAll(
            IF call.attempt = 2
              THEN LoadIfNotLoaded(addLog(M1, "Falha no reparo automatico", "error"),
                                   FALSE)
              ELSE IF isConfigError(error)
                     THEN IF M2.isRepairingConfig
                            THEN AfterRepair(M3, "initializeConfiguration")
                            ELSE M3
                     ELSE LoadIfNotLoaded(
                            addLog(M1, "Erro na inicializacao, tentando carregar configuracao existente...",
                                   "error"),
                            FALSE))
    /\ lastOp' = [op |-> "initRejected", call |-> call, error |-> error]
    /\ UNCHANGED <<siblings, selectedFile, processing, processingStatus, clock, destroyed,
                   nEvents, hist>>

\* get_app_directories_info settles: five lines of the reply are logged, or
\* the failure is written to the console.
DirectoriesInfoSettled ==
  \E call \in BagToSet(workerCalls), ok \in BOOLEAN :
    /\ call.cmd = "get_app_directories_info"
    /\ LET M1 == [Self EXCEPT !.workerCalls = @ (-) SetToBag({call})]
           M2 == addLog(M1, "Informacoes dos diretorios:", "info")
           M3 == addLog(M2, "  Home: /home", "info")
           M4 == addLog(M3, "  Config: /home/.config", "info")
           M5 == addLog(M4, "  PDF padrao: " \o DefaultPdfDirectory, "info")
           M6 == addLog(M5, "  Saida padrao: " \o DefaultOutputDirectory, "info")
           M7 == addLog(M6, "  Arquivo config existe: true", "info")
       IN CommitAll(ResolveInputDirectory(IF ok THEN M7 ELSE M1))
    /\ lastOp' = [op |-> "directoriesInfoSettled", ok |-> ok]
    /\ UNCHANGED <<siblings, selectedFile, processing, processingStatus, clock, destroyed,
                   nEvents, hist>>

\* get_default_pdf_directory or get_default_output_directory resolves.
DefaultDirectoryResolved ==
  \E call \in BagToSet(workerCalls) :
    /\ call.cmd \in {"get_default_pdf_directory", "get_default_output_directory"}
    /\ LET M1 == [Self EXCEPT !.workerCalls = @ (-) SetToBag({call})]
       IN IF call.cmd = "get_default_pdf_directory"
            THEN CommitAll(ResolveOutputDirectory(
                   addLog([M1 EXCEPT !.pdfDirectory = DefaultPdfDirectory],
                          "Usando pasta PDF padrao: " \o DefaultPdfDirectory, "info")))
            ELSE CommitAll(LoadSettings(
                   addLog([M1 EXCEPT !.outputDirectory = DefaultOutputDirectory],
                          "Usando pasta resultados padrao: " \o DefaultOutputDirectory,
                          "info")))
    /\ lastOp' = [op |-> "defaultDirectoryResolved", call |-> call]
    /\ UNCHANGED <<siblings, selectedFile, processing, processingStatus, clock, destroyed,
                   nEvents, hist>>

\* get_default_pdf_directory or get_default_output_directory rejects.
DefaultDirectoryRejected ==
  \E call \in BagToSet(workerCalls) :
    /\ call.cmd \in {"get_default_pdf_directory", "get_default_output_directory"}
    /\ LET M1 == [Self EXCEPT !.workerCalls = @ (-) SetToBag({call})]
       IN IF call.cmd = "get_default_pdf_directory"
            THEN CommitAll(ResolveOutputDirectory(
                   addLog(M1, "Erro ao obter pasta PDF padrao", "error")))
            ELSE CommitAll(LoadSettings(
                   addLog(M1, "Erro ao obter pasta de resultados padrao", "error")))
    /\ lastOp' = [op |-> "defaultDirectoryRejected", call |-> call]
    /\ UNCHANGED <<siblings, selectedFile, processing, processingStatus, clock, destroyed,
                   nEvents, hist>>

\* list_pdf_files settles for a folder that holds no PDF file, or rejects;
\* initializeConfiguration then ends with its summary.
PdfListSettled ==
  \E call \in BagToSet(workerCalls), ok \in BOOLEAN :
    /\ call.cmd = "list_pdf_files"
    /\ LET M1 == [Self EXCEPT !.workerCalls = @ (-) SetToBag({call})]
           M2 == addLog(M1, "Encontrados 0 arquivos PDF", "info")
           M3 == addLog(M2, "Nenhum arquivo PDF encontrado na pasta", "info")
           M4 == addLog(M3, "Adicione arquivos PDF na pasta para processamento", "info")
       IN CommitAll(FinishInitialization(
                      IF ok THEN M4
                            ELSE addLog(M1, "Erro ao carregar arquivos PDF", "error")))
    /\ lastOp' = [op |-> "pdfListSettled", ok |-> ok]
    /\ UNCHANGED <<siblings, selectedFile, processing, processingStatus, clock, destroyed,
                   nEvents, hist>>

(* ------------------------- configuration methods ----------------------- *)
\* loadConfiguration() called on its own.
LoadConfiguration ==
  /\ ~destroyed
  /\ nEvents < MaxEvents
  /\ nEvents' = nEvents + 1
  /\ Commit(loadConfiguration(Self, "none", "loadConfiguration"))
  /\ lastOp' = [op |-> "loadConfiguration"]
  /\ UNCHANGED <<siblings, selectedFile, pdfDirectory, outputDirectory, processing,
                 processingStatus, clock, workerCalls, destroyed, hist>>

\* saveConfiguration() up to its await of save_app_config.
saveConfiguration(M) ==
  IF M.appConfig = NoConfig
    THEN M
    ELSE Invoke(M, [cmd |-> "save_app_config", config |-> M.appConfig,
                    caller |-> "saveConfiguration"])

\* saveConfiguration() called on its own.
SaveConfiguration ==
  /\ ~destroyed
  /\ nEvents < MaxEvents
  /\ nEvents' = nEvents + 1
  /\ Commit(saveConfiguration(Self))
  /\ lastOp' = [op |-> "saveConfiguration"]
  /\ UNCHANGED <<siblings, selectedFile, pdfDirectory, outputDirectory, processing,
                 processingStatus, clock, workerCalls, destroyed, hist>>

\* onVerboseChange(newValue): updateVerboseConfig() up to its await of
\* update_config_verbose.
onVerboseChange ==
  \E newValue \in BOOLEAN :
    /\ ~destroyed
    /\ nEvents < MaxEvents
    /\ nEvents' = nEvents + 1
    /\ Commit(Invoke(Self, [cmd |-> "update_config_verbose", verbose |-> newValue,
                            caller |-> "updateVerboseConfig"]))
    /\ lastOp' = [op |-> "onVerboseChange"]
    /\ UNCHANGED <<siblings, selectedFile, pdfDirectory, outputDirectory, processing,
                   processingStatus, clock, workerCalls, destroyed, hist>>

\* debugAndRepairConfig() up to its await of debug_and_repair_config.
debugAndRepairConfig(M) ==
  Invoke(addLog(M, "Executando debug e reparo da configuracao...", "info"),
         [cmd |-> "debug_and_repair_config", from |-> "debugAndRepairConfig",
          caller |-> "debugAndRepairConfig"])

\* debugAndRepairConfig() called from its button.
DebugAndRepairConfig ==
  /\ ~destroyed
  /\ nEvents < MaxEvents
  /\ nEvents' = nEvents + 1
  /\ Commit(debugAndRepairConfig(Self))
  /\ lastOp' = [op |-> "debugAndRepairConfig"]
  /\ UNCHANGED <<siblings, selectedFile, pdfDirectory, outputDirectory, processing,
                 processingStatus, clock, workerCalls, destroyed, hist>>

\* clearPersistentLogs() up to its await of clear_config_logs.
ClearPersistentLogs ==
  /\ ~destroyed
  /\ nEvents < MaxEvents
  /\ nEvents' = nEvents + 1
  /\ Commit(Invoke(Self, [cmd |-> "clear_config_logs",
                          caller |-> "clearPersistentLogs"]))
  /\ lastOp' = [op |-> "clearPersistentLogs"]
  /\ UNCHANGED <<siblings, selectedFile, pdfDirectory, outputDirectory, processing,
                 processingStatus, clock, workerCalls, destroyed, hist>>

ConfigCommands == {"save_app_config", "update_config_verbose", "clear_config_logs"}

\* save_app_config, update_config_verbose or clear_config_logs resolves: the
\* store has done the operation; saveConfiguration ends, updateVerboseConfig
\* reloads, clearPersistentLogs empties the displayed history.
ConfigCallResolved ==
  \E call \in BagToSet(storeCalls) :
    /\ call.cmd \in ConfigCommands
    /\ CanReply(call)
    /\ LET M1 == [Self EXCEPT !.storeCalls = @ (-) SetToBag({call})]
       IN CASE call.cmd = "save_app_config" ->
                 Commit([M1 EXCEPT !.configStore = StoreSave(call.config)])
            [] call.cmd = "update_config_verbose" ->
                 Commit(loadConfiguration(
                          [M1 EXCEPT !.configStore.verbose = call.verbose],
                          "updateVerboseConfig", "updateVerboseConfig"))
            [] call.cmd = "clear_config_logs" ->
                 Commit(addLog([M1 EXCEPT !.configStore = StoreClearLogs(@),
                                          !.persistentLogs = <<>>],
                               "Historico de logs limpo", "success"))
    /\ hist' = Replied(call)
    /\ lastOp' = [op |-> "configCallResolved", call |-> call]
    /\ UNCHANGED <<siblings, selectedFile, pdfDirectory, outputDirectory, processing,
                   processingStatus, clock, workerCalls, destroyed, nEvents>>

\* save_app_config, update_config_verbose or clear_config_logs rejects: the
\* catch blocks, of which only that of clearPersistentLogs calls addLog.
ConfigCallRejected ==
  \E call \in BagToSet(storeCalls) :
    /\ call.cmd \in ConfigCommands
    /\ CanReply(call)
    /\ LET M1 == [Self EXCEPT !.storeCalls = @ (-) SetToBag({call})]
       IN IF call.cmd = "clear_config_logs"
            THEN Commit(addLog(M1, "Erro ao limpar historico de logs", "error"))
            ELSE Commit(M1)
    /\ hist' = Replied(call)
    /\ lastOp' = [op |-> "configCallRejected", call |-> call]
    /\ UNCHANGED <<siblings, selectedFile, pdfDirectory, outputDirectory, processing,
                   processingStatus, clock, workerCalls, destroyed, nEvents>>

(* ------------------ SelecionarPastaComponent and its host --------------- *)
\* The two instances of the folder-selection child, by their pastaType input.
PastaTypes == {"pdf", "output"}

\* What the folder dialog can resolve with: a folder, or null when dismissed.
DialogResults == {"/a", "/c", Null}

PastaInit ==
  /\ isSelecting = [t \in PastaTypes |-> FALSE]
  /\ dialogs = [t \in PastaTypes |-> 0]

\* UpdateDirectories of the store: a whole-document read-modify-write that
\* replaces the directories it is given and keeps the ones it is not given.
StoreUpdateDirectories(config, input_dir, output_dir) ==
  [config EXCEPT
     !.last_input_directory = IF input_dir = Null THEN @ ELSE input_dir,
     !.last_output_directory = IF output_dir = Null THEN @ ELSE output_dir]

\* onPdfDirectoryChanged(newPath) of the host, the handler of pathChanged of
\* the pdf instance.
PdfDirectoryChanged(M, newPath) ==
  addLog(updateDirectoriesConfig([M EXCEPT !.pdfDirectory = newPath],
                                 newPath, M.outputDirectory),
         "Pasta PDF atualizada: " \o newPath, "success")

\* onOutputDirectoryChanged(newPath) of the host, the handler of pathChanged
\* of the output instance.
OutputDirectoryChanged(M, newPath) ==
  addLog(updateDirectoriesConfig([M EXCEPT !.outputDirectory = newPath],
                                 M.pdfDirectory, newPath),
         "Pasta de resultados atualizada: " \o newPath, "success")

\* pathChanged.emit(selectedPath): the host's handler runs before emit returns.
EmitPathChanged(M, pastaType, selectedPath) ==
  IF pastaType = "pdf"
    THEN PdfDirectoryChanged(M, selectedPath)
    ELSE OutputDirectoryChanged(M, selectedPath)

\* statusMessage.emit(event): onStatusMessage of the host appends it to the log.
EmitStatusMessage(M, message, type) == addLog(M, message, type)

\* A guard of selecionarPasta that looks at the disabled input only.
CanSelect_IgnoresSelecting(isDisabled, selecting) == ~isDisabled

\* The guard of selecionarPasta: not disabled and no selection in progress.
CanSelect(isDisabled, selecting) == ~(isDisabled \/ selecting)

\* selecionarPasta() of one instance up to its await of open(): the click on
\* the button, with the value the disabled input has at that moment.
SelecionarPasta ==
  \E pastaType \in PastaTypes, isDisabled \in BOOLEAN :
    /\ ~destroyed
    /\ nEvents < MaxEvents
    /\ nEvents' = nEvents + 1
    /\ IF CanSelect(isDisabled, isSelecting[pastaType])
         THEN /\ isSelecting' = [isSelecting EXCEPT ![pastaType] = TRUE]
              /\ dialogs' = [dialogs EXCEPT ![pastaType] = @ + 1]
         ELSE UNCHANGED <<isSelecting, dialogs>>
    /\ lastOp' = [op |-> "selecionarPasta", pastaType |-> pastaType,
                  disabled |-> isDisabled,
                  returned |-> ~CanSelect(isDisabled, isSelecting[pastaType])]
    /\ UNCHANGED <<homologacaoVars, sicafVars, navigationVars, relacaoVars,
                   termoVars>>

\* The finally block of selecionarPasta.
EndSelection_KeepsFlag(selecting, pastaType) == selecting

EndSelection(selecting, pastaType) == [selecting EXCEPT ![pastaType] = FALSE]

\* open() resolves: with a folder, the path is emitted and the instance calls
\* its update command; with null, the selection ends as cancelled.
DialogResolved ==
  \E pastaType \in PastaTypes, selectedPath \in DialogResults :
    /\ dialogs[pastaType] > 0
    /\ dialogs' = [dialogs EXCEPT ![pastaType] = @ - 1]
    /\ IF selectedPath # Null
         THEN /\ CommitAll(Invoke(EmitPathChanged(Self, pastaType, selectedPath),
                      [cmd |-> IF pastaType = "pdf"
                                 THEN "update_pdf_directory"
                                 ELSE "update_output_directory",
                       path |-> selectedPath, pastaType |-> pastaType,
                       caller |-> "selecionarPasta"]))
              /\ UNCHANGED isSelecting
         ELSE /\ CommitAll(EmitStatusMessage(Self, "Selecao de pasta cancelada",
                                             "info"))
              /\ isSelecting' = EndSelection(isSelecting, pastaType)
    /\ lastOp' = [op |-> "dialogResolved", pastaType |-> pastaType,
                  selectedPath |-> selectedPath]
    /\ UNCHANGED <<selectedFile, processing, processingStatus, clock, destroyed,
                   nEvents, hist, sicafVars, navigationVars, relacaoVars,
                   termoVars>>

\* open() rejects: the outer catch block and the finally block.
DialogRejected ==
  \E pastaType \in PastaTypes :
    /\ dialogs[pastaType] > 0
    /\ dialogs' = [dialogs EXCEPT ![pastaType] = @ - 1]
    /\ CommitAll(EmitStatusMessage(Self, "Erro ao selecionar pasta", "error"))
    /\ isSelecting' = EndSelection(isSelecting, pastaType)
    /\ lastOp' = [op |-> "dialogRejected", pastaType |-> pastaType]
    /\ UNCHANGED <<selectedFile, processing, processingStatus, clock, destroyed,
                   nEvents, hist, sicafVars, navigationVars, relacaoVars,
                   termoVars>>

PastaCommands == {"update_pdf_directory", "update_output_directory"}

\* update_pdf_directory / update_output_directory resolves with a ConfigResult:
\* the status message of the instance, then its finally block.
PastaSaveResolved ==
  \E call \in BagToSet(storeCalls), success \in BOOLEAN :
    /\ call.cmd \in PastaCommands
    /\ LET M1 == [Self EXCEPT !.storeCalls = @ (-) SetToBag({call})]
           M2 == IF success
                   THEN [M1 EXCEPT !.configStore =
                           IF call.pastaType = "pdf"
                             THEN StoreUpdateDirectories(@, call.path, Null)
                             ELSE StoreUpdateDirectories(@, Null, call.path)]
                   ELSE M1
       IN CommitAll(IF success
                      THEN EmitStatusMessage(M2, "Pasta salva com sucesso",
                                             "success")
                      ELSE EmitStatusMessage(M2, "Erro ao salvar configuracao",
                                             "error"))
    /\ isSelecting' = EndSelection(isSelecting, call.pastaType)
    /\ lastOp' = [op |-> "pastaSaveResolved", call |-> call,
                  success |-> success]
    /\ UNCHANGED <<selectedFile, processing, processingStatus, clock, destroyed,
                   nEvents, hist, dialogs, sicafVars, navigationVars,
                   relacaoVars, termoVars>>

\* update_pdf_directory / update_output_directory rejects: the inner catch
\* block, then the finally block.
PastaSaveRejected ==
  \E call \in BagToSet(storeCalls) :
    /\ call.cmd \in PastaCommands
    /\ CommitAll(EmitStatusMessage(
                   [Self EXCEPT !.storeCalls = @ (-) SetToBag({call})],
                   "Pasta selecionada, mas houve problema ao salvar a configuracao",
                   "info"))
    /\ isSelecting' = EndSelection(isSelecting, call.pastaType)
    /\ lastOp' = [op |-> "pastaSaveRejected", call |-> call]
    /\ UNCHANGED <<selectedFile, processing, processingStatus, clock, destroyed,
                   nEvents, hist, dialogs, sicafVars, navigationVars,
                   relacaoVars, termoVars>>

\* update_config_directories resolves with a ConfigResult: on success
\* updateDirectoriesConfig reloads the configuration to verify the paths.
DirectoriesResolved ==
  \E call \in BagToSet(storeCalls), success \in BOOLEAN :
    /\ call.cmd = "update_config_directories"
    /\ LET M1 == [Self EXCEPT !.storeCalls = @ (-) SetToBag({call})]
       IN IF success
            THEN CommitAll(loadConfiguration(
                   addLog([M1 EXCEPT !.configStore =
                             StoreUpdateDirectories(@, call.input_dir,
                                                    call.output_dir)],
                          "Configuracao salva com sucesso", "success"),
                   "updateDirectoriesConfig", "updateDirectoriesConfig"))
            ELSE CommitAll(addLog(M1, "Erro ao salvar configuracao", "error"))
    /\ lastOp' = [op |-> "directoriesResolved", call |-> call,
                  success |-> success]
    /\ UNCHANGED <<selectedFile, processing, processingStatus, clock, destroyed,
                   nEvents, hist, siblings>>

\* update_config_directories rejects: the catch block of
\* updateDirectoriesConfig.
DirectoriesRejected ==
  \E call \in BagToSet(storeCalls) :
    /\ call.cmd = "update_config_directories"
    /\ CommitAll(addLog([Self EXCEPT !.storeCalls = @ (-) SetToBag({call})],
                        "Erro critico ao atualizar configuracao", "error"))
    /\ lastOp' = [op |-> "directoriesRejected", call |-> call]
    /\ UNCHANGED <<selectedFile, processing, processingStatus, clock, destroyed,
                   nEvents, hist, siblings>>

(* ------------------------- DadosEmpresasComponent ----------------------- *)
\* The log, the processing flag and the counters of the component; the list
\* of companies it displays is not part of this model.
MaxSicafLogs == 50

\* ProcessingSicafResult replies of process_sicaf_pdfs; sicaf_data is "list"
\* when the reply carries the array and null when it does not.
SicafResults ==
  [success : BOOLEAN, processed_count : {0, 2}, sicaf_data : {"list", Null}]

\* What list_pdf_files can count.
PdfCounts == {0, 2}

\* addLog(message) of the component, without the cap.
SicafAddLog_NoCap(entries, message) == <<message>> \o entries

\* addLog(message) of the component: unshift, then keep the first 50.
SicafAddLog(entries, message) ==
  LET added == <<message>> \o entries
  IN IF Len(added) > MaxSicafLogs THEN SubSeq(added, 1, MaxSicafLogs) ELSE added

SicafInit ==
  /\ isProcessing = FALSE
  /\ processedCount = 0
  /\ pdfCount = 0
  /\ sicafLogs = <<>>
  /\ sicafCalls = EmptyBag

\* A log that earlier addLog calls have filled with n different entries.
FilledSicafLog(n) == [i \in 1..n |-> "m" \o ToString(i)]

\* processSicafPdfs() up to its await of process_sicaf_pdfs.
ProcessSicafPdfs ==
  /\ nEvents < MaxEvents
  /\ nEvents' = nEvents + 1
  /\ IF isProcessing
       THEN UNCHANGED sicafVars
       ELSE /\ isProcessing' = TRUE
            /\ processedCount' = 0
            /\ sicafLogs' = SicafAddLog(sicafLogs, "Iniciando processamento de PDFs SICAF...")
            /\ sicafCalls' = sicafCalls (+) SetToBag({[cmd |-> "process_sicaf_pdfs"]})
            /\ UNCHANGED pdfCount
  /\ lastOp' = [op |-> "processSicafPdfs", returned |-> isProcessing,
                logged |-> IF isProcessing
                             THEN <<>>
                             ELSE <<"Iniciando processamento de PDFs SICAF...">>]
  /\ UNCHANGED <<homologacaoVars, pastaVars, navigationVars, relacaoVars,
                 termoVars>>

\* History: what the continuation of process_sicaf_pdfs logs, in order.
SicafMessages(result) ==
  CASE ~result.success -> <<"Erro no processamento">>
    [] result.success /\ result.sicaf_data = Null ->
         <<"Processamento concluido", "Erro ao processar PDFs">>
    [] OTHER -> <<"Processamento concluido", "Dados SICAF atualizados">>

\* process_sicaf_pdfs resolves. On success the count is taken, the companies
\* are updated (which throws into the catch block when the reply carries no
\* array) and loadPdfCount() is started without being awaited; the finally
\* block clears the flag.
SicafResolved ==
  \E result \in SicafResults :
    LET call == [cmd |-> "process_sicaf_pdfs"]
        done == SicafAddLog(sicafLogs, "Processamento concluido")
    IN /\ BagIn(call, sicafCalls)
       /\ IF result.success
            THEN /\ processedCount' = result.processed_count
                 /\ IF result.sicaf_data = Null
                      THEN /\ sicafLogs' = SicafAddLog(done, "Erro ao processar PDFs")
                           /\ sicafCalls' = sicafCalls (-) SetToBag({call})
                      ELSE /\ sicafLogs' = SicafAddLog(done, "Dados SICAF atualizados")
                           /\ sicafCalls' =
                                (sicafCalls (-) SetToBag({call}))
                                  (+) SetToBag({[cmd |-> "get_sicaf_directory"]})
            ELSE /\ sicafLogs' = SicafAddLog(sicafLogs, "Erro no processamento")
                 /\ sicafCalls' = sicafCalls (-) SetToBag({call})
                 /\ UNCHANGED processedCount
       /\ isProcessing' = FALSE
       /\ lastOp' = [op |-> "sicafResolved", result |-> result,
                     logged |-> SicafMessages(result)]
       /\ UNCHANGED <<homologacaoVars, nEvents, pdfCount, pastaVars,
                      navigationVars, relacaoVars, termoVars>>

\* process_sicaf_pdfs rejects: the catch block and the finally block.
SicafRejected ==
  LET call == [cmd |-> "process_sicaf_pdfs"]
  IN /\ BagIn(call, sicafCalls)
     /\ sicafCalls' = sicafCalls (-) SetToBag({call})
     /\ sicafLogs' = SicafAddLog(sicafLogs, "Erro ao processar PDFs")
     /\ isProcessing' = FALSE
     /\ lastOp' = [op |-> "sicafRejected",
                   logged |-> <<"Erro ao processar PDFs">>]
     /\ UNCHANGED <<homologacaoVars, nEvents, processedCount, pdfCount,
                    pastaVars, navigationVars, relacaoVars, termoVars>>

\* loadPdfCount(): get_sicaf_directory resolves and list_pdf_files is called.
SicafDirectoryResolved ==
  LET call == [cmd |-> "get_sicaf_directory"]
  IN /\ BagIn(call, sicafCalls)
     /\ sicafCalls' = (sicafCalls (-) SetToBag({call}))
                        (+) SetToBag({[cmd |-> "list_pdf_files"]})
     /\ lastOp' = [op |-> "sicafDirectoryResolved", logged |-> <<>>]
     /\ UNCHANGED <<homologacaoVars, nEvents, isProcessing, processedCount,
                    pdfCount, sicafLogs, pastaVars, navigationVars, relacaoVars,
                    termoVars>>

\* loadPdfCount(): list_pdf_files resolves with the files of the folder.
PdfCountResolved ==
  \E count \in PdfCounts :
    LET call == [cmd |-> "list_pdf_files"]
    IN /\ BagIn(call, sicafCalls)
       /\ sicafCalls' = sicafCalls (-) SetToBag({call})
       /\ pdfCount' = count
       /\ sicafLogs' = SicafAddLog(sicafLogs, "Arquivos PDF encontrados: " \o ToString(count))
       /\ lastOp' = [op |-> "pdfCountResolved", count |-> count,
                     logged |-> <<"Arquivos PDF encontrados: " \o ToString(count)>>]
       /\ UNCHANGED <<homologacaoVars, nEvents, isProcessing, processedCount,
                      pastaVars, navigationVars, relacaoVars, termoVars>>

\* loadPdfCount(): one of its two calls rejects, the catch block.
PdfCountRejected ==
  \E call \in BagToSet(sicafCalls) :
    /\ call.cmd \in {"get_sicaf_directory", "list_pdf_files"}
    /\ sicafCalls' = sicafCalls (-) SetToBag({call})
    /\ sicafLogs' = SicafAddLog(sicafLogs, "Erro ao contar PDFs")
    /\ lastOp' = [op |-> "pdfCountRejected", call |-> call,
                  logged |-> <<"Erro ao contar PDFs">>]
    /\ UNCHANGED <<homologacaoVars, nEvents, isProcessing, processedCount,
                   pdfCount, pastaVars, navigationVars, relacaoVars,
                   termoVars>>

\* clearLogs()
ClearLogs ==
  /\ nEvents < MaxEvents
  /\ nEvents' = nEvents + 1
  /\ sicafLogs' = <<>>
  /\ lastOp' = [op |-> "clearLogs"]
  /\ UNCHANGED <<homologacaoVars, isProcessing, processedCount, pdfCount,
                 sicafCalls, pastaVars, navigationVars, relacaoVars,
                 termoVars>>

(* -------------------- NavigationService and the sidebar ----------------- *)
\* The ids of menuItems.
MenuItemIds ==
  {"termo-referencia", "processar-homologacao", "dados-empresas", "gerar-ata",
   "indices-economicidade", "configuracoes"}

\* The ids setCurrentPage is called with: those of the menu, one that no menu
\* item has and the empty string.
PageIds == MenuItemIds \cup {"relatorios", ""}

NavigationInit ==
  /\ currentPageSubject = "processar-homologacao"
  /\ sidebarOpenSubject = FALSE
  /\ sidebarCollapsedSubject = FALSE
  /\ pageEmissions = 1

\* currentPageSubject as setCurrentPage reads and writes it: its value and the
\* number of values it has emitted.
PageSubject == [value |-> currentPageSubject, emissions |-> pageEmissions]

\* A setCurrentPage that emits whatever it is given.
setCurrentPage_Unchecked(subject, pageId) ==
  [value |-> pageId, emissions |-> subject.emissions + 1]

\* setCurrentPage(pageId): next(pageId) when a menu item has that id.
setCurrentPage(subject, pageId) ==
  IF \E item \in MenuItemIds : item = pageId
    THEN [value |-> pageId, emissions |-> subject.emissions + 1]
    ELSE subject

\* setCurrentPage(pageId) called on the service.
SetCurrentPage ==
  \E pageId \in PageIds :
    /\ nEvents < MaxEvents
    /\ nEvents' = nEvents + 1
    /\ currentPageSubject' = setCurrentPage(PageSubject, pageId).value
    /\ pageEmissions' = setCurrentPage(PageSubject, pageId).emissions
    /\ lastOp' = [op |-> "setCurrentPage", pageId |-> pageId]
    /\ UNCHANGED <<homologacaoVars, sidebarOpenSubject, sidebarCollapsedSubject,
                   pastaVars, sicafVars, relacaoVars, termoVars>>

\* selectMenuItem(itemId) of the sidebar, whose isMobileOpen follows
\* sidebarOpen$: the page is set and an open mobile sidebar is closed.
selectMenuItem ==
  \E itemId \in PageIds :
    /\ nEvents < MaxEvents
    /\ nEvents' = nEvents + 1
    /\ currentPageSubject' = setCurrentPage(PageSubject, itemId).value
    /\ pageEmissions' = setCurrentPage(PageSubject, itemId).emissions
    /\ sidebarOpenSubject' = IF sidebarOpenSubject THEN FALSE
                                                   ELSE sidebarOpenSubject
    /\ lastOp' = [op |-> "selectMenuItem", pageId |-> itemId]
    /\ UNCHANGED <<homologacaoVars, sidebarCollapsedSubject, pastaVars,
                   sicafVars, relacaoVars, termoVars>>

\* toggleSidebarOpen()
toggleSidebarOpen ==
  /\ nEvents < MaxEvents
  /\ nEvents' = nEvents + 1
  /\ sidebarOpenSubject' = ~sidebarOpenSubject
  /\ lastOp' = [op |-> "toggleSidebarOpen"]
  /\ UNCHANGED <<homologacaoVars, currentPageSubject, sidebarCollapsedSubject,
                 pageEmissions, pastaVars, sicafVars, relacaoVars, termoVars>>

\* toggleSidebar()
toggleSidebar ==
  /\ nEvents < MaxEvents
  /\ nEvents' = nEvents + 1
  /\ sidebarCollapsedSubject' = ~sidebarCollapsedSubject
  /\ lastOp' = [op |-> "toggleSidebar"]
  /\ UNCHANGED <<homologacaoVars, currentPageSubject, sidebarOpenSubject,
                 pageEmissions, pastaVars, sicafVars, relacaoVars, termoVars>>

(* --------------------------- RelacaoPdfComponent ------------------------ *)
\* File names and search terms are sequences of characters, so that
\* toLowerCase() and includes() are computed on them.
PdfFileA == [file_path |-> "/a/A.pdf", file_name |-> <<"A">>]

PdfFileAb == [file_path |-> "/a/ab.pdf", file_name |-> <<"a", "b">>]

PdfFileB == [file_path |-> "/a/b.pdf", file_name |-> <<"b">>]

\* The lists loadPdfFilesList() leaves in availablePdfFiles, sorted by name.
PdfFileLists == {<<>>, <<PdfFileA, PdfFileAb>>, <<PdfFileA, PdfFileAb, PdfFileB>>}

\* What the user types in the search box.
SearchTerms == {<<>>, <<"a">>, <<"B">>}

LowerCaseOf(char) ==
  CASE char = "A" -> "a"
    [] char = "B" -> "b"
    [] OTHER -> char

\* String.prototype.toLowerCase()
toLowerCase(str) == [i \in DOMAIN str |-> LowerCaseOf(str[i])]

\* String.prototype.includes(part)
StringIncludes(str, part) ==
  \E i \in 1..(Len(str) + 1) :
    /\ i + Len(part) - 1 <= Len(str)
    /\ SubSeq(str, i, i + Len(part) - 1) = part

\* getFilteredFiles()
getFilteredFiles(files, term) ==
  IF term = <<>>
    THEN files
    ELSE LET Matches(file) ==
               StringIncludes(toLowerCase(file.file_name), toLowerCase(term))
         IN SelectSeq(files, Matches)

FilePaths(files) == {files[i].file_path : i \in DOMAIN files}

\* selectAllFiles(): the selection after the call.
selectAllFiles(selected, files, term) ==
  IF Cardinality(selected) = Len(getFilteredFiles(files, term))
    THEN {}
    ELSE selected \cup FilePaths(getFilteredFiles(files, term))

RelacaoInit ==
  /\ availablePdfFiles = <<>>
  /\ searchTerm = <<>>
  /\ selectedFiles = {}

\* selectAllFiles() called from its button.
SelectAllFiles ==
  /\ nEvents < MaxEvents
  /\ nEvents' = nEvents + 1
  /\ selectedFiles' = selectAllFiles(selectedFiles, availablePdfFiles, searchTerm)
  /\ lastOp' = [op |-> "selectAllFiles"]
  /\ UNCHANGED <<homologacaoVars, availablePdfFiles, searchTerm, pastaVars,
                 sicafVars, navigationVars, termoVars>>

\* toggleFileSelection(fileInfo) for a file of the displayed list.
toggleFileSelection ==
  \E i \in DOMAIN getFilteredFiles(availablePdfFiles, searchTerm) :
    LET fileInfo == getFilteredFiles(availablePdfFiles, searchTerm)[i]
    IN /\ nEvents < MaxEvents
       /\ nEvents' = nEvents + 1
       /\ selectedFiles' = IF fileInfo.file_path \in selectedFiles
                             THEN selectedFiles \ {fileInfo.file_path}
                             ELSE selectedFiles \cup {fileInfo.file_path}
       /\ lastOp' = [op |-> "toggleFileSelection", fileInfo |-> fileInfo]
       /\ UNCHANGED <<homologacaoVars, availablePdfFiles, searchTerm, pastaVars,
                      sicafVars, navigationVars, termoVars>>

\* The search box bound to searchTerm is edited.
SetSearchTerm ==
  \E term \in SearchTerms :
    /\ nEvents < MaxEvents
    /\ nEvents' = nEvents + 1
    /\ searchTerm' = term
    /\ lastOp' = [op |-> "setSearchTerm", term |-> term]
    /\ UNCHANGED <<homologacaoVars, availablePdfFiles, selectedFiles, pastaVars,
                   sicafVars, navigationVars, termoVars>>

(* ------------------------ TermoReferenciaComponent ---------------------- *)
\* The table and its edit form. Indices are those of the code: 0-based, -1
\* for no row. No imported file is current (arquivoAtualId is ''), so
\* atualizarArquivoAtual() changes nothing and salvarDadosLocais() writes the
\* table to localStorage.
TermoRow(k) ==
  [item |-> k, catalogo |-> "c", descricao |-> "d", descricao_detalhada |-> ""]

BlankRow ==
  [item |-> "", catalogo |-> "", descricao |-> "", descricao_detalhada |-> ""]

\* The tables carregarDadosLocais() loads.
TermoTables ==
  {<<TermoRow("1"), TermoRow("2")>>,
   <<TermoRow("1"), TermoRow("2"), TermoRow("3")>>}

\* What the user types in the description field of the form.
FieldValues == {"", " ", "x"}

\* An array element that was never assigned.
Undefined == [undefined |-> TRUE]

\* String.prototype.trim() on the values above.
Trim(str) == IF str = " " THEN "" ELSE str

\* validarItem(item)
validarItem(row) ==
  /\ Trim(row.item) # ""
  /\ Trim(row.catalogo) # ""
  /\ Trim(row.descricao) # ""

\* array[index] = value: an index of the array replaces the element, an index
\* past the end extends the array, any other key leaves the elements alone.
ArraySet(array, index, value) ==
  CASE index \in 0..(Len(array) - 1) -> [array EXCEPT ![index + 1] = value]
    [] index >= Len(array) ->
         [i \in 1..(index + 1) |->
            IF i <= Len(array) THEN array[i]
            ELSE IF i = index + 1 THEN value ELSE Undefined]
    [] OTHER -> array

\* array.splice(index, 1)
Splice(array, index) ==
  [i \in 1..(Len(array) - 1) |-> IF i <= index THEN array[i] ELSE array[i + 1]]

TermoInit ==
  /\ termosReferencia = <<>>
  /\ selectedIndex = -1
  /\ editingItem = FALSE
  /\ itemEdicao = BlankRow
  /\ localStorage = <<>>
  /\ editedRow = -1
  /\ strayWrites = {}

\* selectRow(index) for a row of the table.
selectRow ==
  \E index \in 0..(Len(termosReferencia) - 1) :
    /\ nEvents < MaxEvents
    /\ nEvents' = nEvents + 1
    /\ selectedIndex' = index
    /\ lastOp' = [op |-> "selectRow", index |-> index]
    /\ UNCHANGED <<homologacaoVars, termosReferencia, editingItem, itemEdicao,
                   localStorage, editedRow, strayWrites, pastaVars, sicafVars,
                   navigationVars, relacaoVars>>

\* editarItem(index) for a row of the table.
editarItem ==
  \E index \in 0..(Len(termosReferencia) - 1) :
    /\ nEvents < MaxEvents
    /\ nEvents' = nEvents + 1
    /\ itemEdicao' = termosReferencia[index + 1]
    /\ selectedIndex' = index
    /\ editingItem' = TRUE
    /\ editedRow' = index
    /\ lastOp' = [op |-> "editarItem", index |-> index]
    /\ UNCHANGED <<homologacaoVars, termosReferencia, localStorage, strayWrites,
                   pastaVars, sicafVars, navigationVars, relacaoVars>>

\* The description field of the open form is edited.
EditField ==
  \E value \in FieldValues :
    /\ editingItem
    /\ nEvents < MaxEvents
    /\ nEvents' = nEvents + 1
    /\ itemEdicao' = [itemEdicao EXCEPT !.descricao = value]
    /\ lastOp' = [op |-> "editField", value |-> value]
    /\ UNCHANGED <<homologacaoVars, termosReferencia, selectedIndex, editingItem,
                   localStorage, editedRow, strayWrites, pastaVars, sicafVars,
                   navigationVars, relacaoVars>>

\* removerItem(index) for a row of the table, with the answer to confirm().
removerItem ==
  \E index \in 0..(Len(termosReferencia) - 1), confirmed \in BOOLEAN :
    /\ nEvents < MaxEvents
    /\ nEvents' = nEvents + 1
    /\ IF confirmed
         THEN /\ termosReferencia' = Splice(termosReferencia, index)
              /\ selectedIndex' = -1
              /\ localStorage' = Splice(termosReferencia, index)
              /\ editedRow' = CASE editedRow = index -> -1
                                [] editedRow > index -> editedRow - 1
                                [] OTHER -> editedRow
         ELSE UNCHANGED <<termosReferencia, selectedIndex, localStorage,
                          editedRow>>
    /\ lastOp' = [op |-> "removerItem", index |-> index,
                  confirmed |-> confirmed]
    /\ UNCHANGED <<homologacaoVars, editingItem, itemEdicao, strayWrites,
                   pastaVars, sicafVars, navigationVars, relacaoVars>>

\* salvarEdicao() from the open form.
salvarEdicao ==
  /\ editingItem
  /\ nEvents < MaxEvents
  /\ nEvents' = nEvents + 1
  /\ IF validarItem(itemEdicao)
       THEN /\ termosReferencia' =
                 ArraySet(termosReferencia, selectedIndex, itemEdicao)
            /\ strayWrites' = IF selectedIndex < 0
                                THEN strayWrites \cup {selectedIndex}
                                ELSE strayWrites
            /\ editingItem' = FALSE
            /\ localStorage' =
                 ArraySet(termosReferencia, selectedIndex, itemEdicao)
            /\ editedRow' = -1
       ELSE UNCHANGED <<termosReferencia, strayWrites, editingItem,
                        localStorage, editedRow>>
  /\ lastOp' = [op |-> "salvarEdicao", saved |-> validarItem(itemEdicao)]
  /\ UNCHANGED <<homologacaoVars, selectedIndex, itemEdicao, pastaVars,
                 sicafVars, navigationVars, relacaoVars>>

\* cancelarEdicao() from the open form.
cancelarEdicao ==
  /\ editingItem
  /\ nEvents < MaxEvents
  /\ nEvents' = nEvents + 1
  /\ editingItem' = FALSE
  /\ itemEdicao' = BlankRow
  /\ editedRow' = -1
  /\ lastOp' = [op |-> "cancelarEdicao"]
  /\ UNCHANGED <<homologacaoVars, termosReferencia, selectedIndex, localStorage,
                 strayWrites, pastaVars, sicafVars, navigationVars,
                 relacaoVars>>

\* The sibling components as they are constructed.
SiblingsInit ==
  /\ PastaInit
  /\ SicafInit
  /\ NavigationInit
  /\ RelacaoInit
  /\ TermoInit

(* ----------------------------- specification --------------------------- *)
HomologacaoInit ==
  /\ selectedFile = ""
  /\ pdfDirectory = ""
  /\ outputDirectory = ""
  /\ processing = FALSE
  /\ processingStatus = NoStatus
  /\ currentSessionId = ""
  /\ progressInterval = 0
  /\ progressLogs = <<>>
  /\ isRepairingConfig = FALSE
  /\ pendingRepairs = 0
  /\ appConfig = NoConfig
  /\ configLoaded = FALSE
  /\ persistentLogs = <<>>
  /\ configStore = NewConfig
  /\ timers = {}
  /\ nextTimer = 0
  /\ clock = 0
  /\ workerCalls = EmptyBag
  /\ storeCalls = EmptyBag
  /\ destroyed = FALSE
  /\ nEvents = 0
  /\ hist = [acked |-> {}, failed |-> {}, cancelled |-> FALSE,
             completions |-> [s \in SessionIds |-> 0],
             cleanups |-> [s \in SessionIds |-> 0],
             accepted |-> <<>>, storeReplies |-> 0, configReplies |-> 0,
             initialized |-> FALSE]
  /\ lastOp = [op |-> "init"]

Init == HomologacaoInit /\ SiblingsInit

\* The session from submit to cleanup: the submit that needs no path, the
\* polling timer and its callbacks, cancel and teardown.
Next ==
  \/ processFixedDirectory
  \/ SubmitResolved
  \/ SubmitRejected
  \/ StartProgressMonitoring
  \/ StopProgressMonitoring
  \/ ngOnDestroy
  \/ PollTick
  \/ PollResolved
  \/ PollRejected
  \/ CleanupSettled

Spec == Init /\ [][Next]_vars

\* The four submit methods and the fields their guards read.
SubmitNext ==
  \/ processFile
  \/ processDirectory
  \/ processFixedDirectory
  \/ processSinglePdfFile
  \/ SubmitResolved
  \/ SubmitRejected
  \/ onPdfDirectoryChanged
  \/ onOutputDirectoryChanged
  \/ selectFile

SubmitSpec == Init /\ [][SubmitNext]_vars

\* A transient log that earlier addLog calls of kind progress have filled:
\* n entries with different messages, none of them mirrored.
FilledLog(n) == [i \in 1..n |-> [message |-> "p" \o ToString(i), type |-> "progress"]]

\* The log aggregator on its own: starts from an empty log, a log one entry
\* short of the cap and a full log.
LogInit ==
  \E n \in {0, MaxTransientLogs - 1, MaxTransientLogs} :
    /\ selectedFile = ""
    /\ pdfDirectory = ""
    /\ outputDirectory = ""
    /\ processing = FALSE
    /\ processingStatus = NoStatus
    /\ currentSessionId = ""
    /\ progressInterval = 0
    /\ progressLogs = FilledLog(n)
    /\ isRepairingConfig = FALSE
    /\ pendingRepairs = 0
    /\ appConfig = NoConfig
    /\ configLoaded = FALSE
    /\ persistentLogs = <<>>
    /\ configStore = NewConfig
    /\ timers = {}
    /\ nextTimer = 0
    /\ clock = 0
    /\ workerCalls = EmptyBag
    /\ storeCalls = EmptyBag
    /\ destroyed = FALSE
    /\ nEvents = 0
    /\ hist = [acked |-> {}, failed |-> {}, cancelled |-> FALSE,
               completions |-> [s \in SessionIds |-> 0],
               cleanups |-> [s \in SessionIds |-> 0],
               accepted |-> FilledLog(n), storeReplies |-> 0, configReplies |-> 0,
             initialized |-> FALSE]
    /\ lastOp = [op |-> "init"]
    /\ SiblingsInit

LogNext == AddLog

LogSpec == LogInit /\ [][LogNext]_vars

\* The two entry points of the aggregator and the repair entry that sets the
\* flag they read, before any reply of the store.
FlagNext ==
  \/ AddLog
  \/ AddPersistentLog
  \/ PerformAutomaticRepair

FlagSpec == Init /\ [][FlagNext]_vars

\* Log mirroring and the repair coordinator: log calls, the replies of the
\* store calls they lead to, and repairs, deferred or called.
MirrorNext ==
  \/ AddLog
  \/ MirrorResolved
  \/ MirrorRejected
  \/ LoadResolved
  \/ LoadRejected
  \/ RepairTimeout
  \/ PerformAutomaticRepair
  \/ RepairResolved
  \/ RepairRejected

MirrorSpec == Init /\ [][MirrorNext]_vars

\* The documents a store may hold when the component starts: each folder
\* saved by an earlier run or not, the log holding a stored entry or none.
StoredConfigs ==
  {[NewConfig EXCEPT !.last_input_directory = i, !.last_output_directory = o]
     : i \in {"", InputDir}, o \in {"", OutputDir}}

\* A persisted log that earlier runs have filled up to max_logs.
StoredLog(n) == [i \in 1..n |-> [message |-> "stored " \o ToString(i), type |-> "info"]]

\* Stored documents whose log is empty or full.
FilledConfigs ==
  {[NewConfig EXCEPT !.processing_logs = StoredLog(n)] : n \in {0, MaxLogs}}

\* The state after construction over a store that holds one of the documents.
StartOver(documents) ==
  /\ selectedFile = ""
  /\ pdfDirectory = ""
  /\ outputDirectory = ""
  /\ processing = FALSE
  /\ processingStatus = NoStatus
  /\ currentSessionId = ""
  /\ progressInterval = 0
  /\ progressLogs = <<>>
  /\ isRepairingConfig = FALSE
  /\ pendingRepairs = 0
  /\ appConfig = NoConfig
  /\ configLoaded = FALSE
  /\ persistentLogs = <<>>
  /\ configStore \in documents
  /\ timers = {}
  /\ nextTimer = 0
  /\ clock = 0
  /\ workerCalls = EmptyBag
  /\ storeCalls = EmptyBag
  /\ destroyed = FALSE
  /\ nEvents = 0
  /\ hist = [acked |-> {}, failed |-> {}, cancelled |-> FALSE,
             completions |-> [s \in SessionIds |-> 0],
             cleanups |-> [s \in SessionIds |-> 0],
             accepted |-> <<>>, storeReplies |-> 0, configReplies |-> 0,
             initialized |-> FALSE]
  /\ lastOp = [op |-> "init"]
  /\ SiblingsInit

\* Initialisation over any stored document.
ConfigInit == StartOver(StoredConfigs)

\* initializeConfiguration from ngOnInit to its summary, with the loads and
\* repairs it awaits.
InitNext ==
  \/ ngOnInit
  \/ InitResolved
  \/ InitRejected
  \/ LoadResolved
  \/ LoadRejected
  \/ RepairResolved
  \/ RepairRejected
  \/ DirectoriesInfoSettled
  \/ DefaultDirectoryResolved
  \/ DefaultDirectoryRejected
  \/ PdfListSettled

InitSpec == ConfigInit /\ [][InitNext]_vars

\* The same with the store answering every debug_and_repair_config call:
\* invoke() returns a promise that the backend settles, one way or the other.
InitFairSpec ==
  ConfigInit /\ [][InitNext]_vars /\ WF_vars(RepairResolved \/ RepairRejected)

\* The configuration methods called on their own and the replies of the
\* store calls they make.
ConfigNext ==
  \/ LoadConfiguration
  \/ SaveConfiguration
  \/ onVerboseChange
  \/ DebugAndRepairConfig
  \/ ClearPersistentLogs
  \/ ConfigCallResolved
  \/ ConfigCallRejected
  \/ LoadResolved
  \/ LoadRejected
  \/ RepairResolved
  \/ RepairRejected

ConfigSpec == ConfigInit /\ [][ConfigNext]_vars

\* The persisted log: log lines, their mirroring in a store that answers,
\* the reload that displays the stored log, and saves of the loaded document.
PersistInit == StartOver(FilledConfigs)

PersistNext ==
  \/ AddLog
  \/ MirrorResolved
  \/ LoadResolved
  \/ SaveConfiguration
  \/ ConfigCallResolved

PersistSpec == PersistInit /\ [][PersistNext]_vars

\* The first part of initialisation, up to the worker calls it makes once the
\* configuration is settled, together with the rejections of the mirroring
\* calls of its log lines and the repairs those rejections defer.
RecoveryInit == StartOver({NewConfig})

RecoveryNext ==
  \/ ngOnInit
  \/ InitResolved
  \/ InitRejected
  \/ LoadResolved
  \/ LoadRejected
  \/ RepairResolved
  \/ RepairRejected
  \/ MirrorRejected
  \/ RepairTimeout

RecoverySpec == RecoveryInit /\ [][RecoveryNext]_vars

(* ------------------------------ properties ----------------------------- *)
SubmitEntries ==
  {"processFile", "processDirectory", "processFixedDirectory", "processSinglePdfFile"}

\* submit calls awaiting the worker
SubmitsInFlight ==
  LET S == {c \in BagToSet(workerCalls) : c.cmd \in SubmitCommands}
  IN BagCardinality([c \in S |-> workerCalls[c]])

\* nothing is left that could poll session s
Quiescent(s) ==
  /\ \A t \in timers : t.sessionId # s
  /\ \A c \in BagToSet(workerCalls) :
       c.cmd = "get_processing_status" => c.session_id # s

ErrorCount(logs) == Cardinality({i \in DOMAIN logs : logs[i].type = "error"})

LastLog(logs) == logs[Len(logs)]

\* C1: at most one session is Submitting/Processing at a time: a submit
\* made while another submit's worker call is in flight issues no second
\* worker call, so two submit calls are never in flight together.
C1_SingleFlight == SubmitsInFlight <= 1

\* C2: a session acknowledged with a session id is polled on the timer: when
\* the handler of the acknowledging reply has run, the timer that
\* startProgressMonitoring armed for that id is armed and named by the handle.
C2_AckedSessionIsPolled ==
  (lastOp.op = "submitResolved" /\ lastOp.result.session_id # "")
    => /\ progressInterval # 0
       /\ \E t \in timers :
            t.id = progressInterval /\ t.sessionId = lastOp.result.session_id

\* C3: end to end, a session acknowledged by a submit runs through its polls
\* to one completion log and one cleanup call: once nothing is left that
\* could poll it (and no poll failed and nobody cancelled), it has completed
\* exactly once and its cleanup call has been issued.
C3_AckedSessionCompletes ==
  \A s \in hist.acked :
    (Quiescent(s) /\ s \notin hist.failed /\ ~hist.cancelled)
      => (hist.completions[s] = 1 /\ hist.cleanups[s] >= 1)

\* C4: the completion Success log is appended at most once per session,
\* however many ticks observe the terminal status.
C4_CompletionLoggedOnce ==
  \A s \in SessionIds : hist.completions[s] <= 1

\* C5: stopProgressMonitoring is idempotent. Called on its own (cancel,
\* teardown) it leaves the handle null; with a null handle it changes nothing
\* and clears no timer; with a handle it clears exactly that timer. Every
\* handler that ends by calling it leaves the handle null.
C5_StopIdempotent ==
  [][ /\ lastOp'.op \in {"stopProgressMonitoring", "ngOnDestroy"}
         => /\ progressInterval' = 0
            /\ progressInterval = 0 =>
                 /\ timers' = timers
                 /\ UNCHANGED <<progressLogs, storeCalls, workerCalls,
                                processing, processingStatus, currentSessionId>>
            /\ progressInterval # 0 =>
                 timers' = {t \in timers : t.id # progressInterval}
      /\ lastOp'.op \in {"submitResolved", "submitRejected", "pollRejected"}
         => progressInterval' = 0
    ]_vars

\* C5 witness: a second stop, made after a timer had been armed and stopped.
C5_Witness ==
  /\ lastOp.op = "stopProgressMonitoring"
  /\ lastOp.handle = 0
  /\ nextTimer > 0
  /\ progressInterval = 0

\* C6: a poll reply that arrives after the timer that issued the call has
\* been cleared is discarded: processingStatus and the log stay as they are
\* and no cleanup call is issued.
C6_LateReplyDiscarded ==
  [][ (lastOp'.op = "pollResolved"
         /\ \A t \in timers : t.id # lastOp'.call.timer)
        => /\ processingStatus' = processingStatus
           /\ progressLogs' = progressLogs
           /\ hist'.cleanups = hist.cleanups
    ]_vars

\* C7: a failed get_processing_status call stops the loop and appends exactly
\* one Error entry to the transient log, and no later tick polls that session.
C7_PollFailureLogged ==
  [][ /\ lastOp'.op = "pollRejected"
         => /\ progressInterval' = 0
            /\ Len(progressLogs') = Len(progressLogs) + 1
            /\ LastLog(progressLogs').type = "error"
      /\ lastOp'.op = "pollTick" => lastOp'.session_id \notin hist.failed
    ]_vars

\* C8: a status with a non-empty error list appends one Error entry per
\* error, in order (before the completion entry of a terminal status), and
\* leaves the timer armed unless the status also has is_processing = false.
C8_ErrorsLoggedNotTerminal ==
  [][ (lastOp'.op = "pollResolved" /\ lastOp'.status.errors # <<>>)
        => LET status == lastOp'.status
               n == Len(status.errors)
               k == IF status.is_processing THEN 0 ELSE 1
               logs == progressLogs'
           IN /\ Len(logs) >= n + k
              /\ \A i \in 1..n :
                   logs[Len(logs) - k - n + i] =
                     [message |-> ErrorMessage(status.errors[i]), type |-> "error"]
              /\ Len(progressLogs) + n + 2 <= MaxTransientLogs
                   => ErrorCount(logs) = ErrorCount(progressLogs) + n
              /\ status.is_processing
                   => (progressInterval' = progressInterval /\ timers' = timers)
    ]_vars

\* C8 witness: a tick reported errors while still processing and the timer
\* that issued it is still armed.
C8_Witness ==
  /\ lastOp.op = "pollResolved"
  /\ lastOp.status.errors # <<>>
  /\ lastOp.status.is_processing
  /\ progressInterval = lastOp.call.timer
  /\ ErrorCount(progressLogs) >= Len(lastOp.status.errors)

\* C9: exactly one cleanup call is issued per session that reaches a terminal
\* status, and it is issued with the timer handle already null.
C9_ExactlyOneCleanup ==
  /\ \A s \in SessionIds :
       /\ hist.cleanups[s] <= 1
       /\ hist.completions[s] >= 1 => hist.cleanups[s] = 1
  /\ \A c \in BagToSet(workerCalls) :
       c.cmd = "clear_processing_state" => c.handleAtIssue = 0

\* what C10 promises of a rejected submit: no worker call, processing and
\* the session id as they were, the log not reset, one Error entry appended
RejectedInvalidSpec ==
  /\ workerCalls' = workerCalls
  /\ processing' = processing
  /\ currentSessionId' = currentSessionId
  /\ Len(progressLogs') > 0
  /\ LastLog(progressLogs').type = "error"
  /\ Len(progressLogs) < MaxTransientLogs
       => progressLogs' = Append(progressLogs, LastLog(progressLogs'))

\* C10 as stated: every submit method, processFixedDirectory included, is
\* rejected when its input or output path is missing.
C10_AllEntriesValidate ==
  [][ /\ (lastOp'.op = "processFile" /\ (selectedFile = "" \/ outputDirectory = ""))
         => RejectedInvalidSpec
      /\ (lastOp'.op = "processDirectory" /\ (pdfDirectory = "" \/ outputDirectory = ""))
         => RejectedInvalidSpec
      /\ (lastOp'.op = "processSinglePdfFile"
            /\ (lastOp'.fileInfo = Null \/ outputDirectory = ""))
         => RejectedInvalidSpec
      /\ (lastOp'.op = "processFixedDirectory"
            /\ (pdfDirectory = "" \/ outputDirectory = ""))
         => RejectedInvalidSpec
    ]_vars

\* C10 amended: processFile, processDirectory and processSinglePdfFile are
\* rejected when a path they need is missing; processFixedDirectory checks
\* no path and always issues its worker call.
C10_PathEntriesValidate ==
  [][ /\ (lastOp'.op = "processFile" /\ (selectedFile = "" \/ outputDirectory = ""))
         => RejectedInvalidSpec
      /\ (lastOp'.op = "processDirectory" /\ (pdfDirectory = "" \/ outputDirectory = ""))
         => RejectedInvalidSpec
      /\ (lastOp'.op = "processSinglePdfFile"
            /\ (lastOp'.fileInfo = Null \/ outputDirectory = ""))
         => RejectedInvalidSpec
      /\ lastOp'.op = "processFixedDirectory"
         => /\ BagCardinality(workerCalls') = BagCardinality(workerCalls) + 1
            /\ processing'
    ]_vars

\* C10 witness: processFile was rejected for its missing output folder, with
\* the file chosen: the rejection is the last log entry and nothing was sent.
C10_Witness ==
  /\ lastOp.op = "processFile"
  /\ selectedFile # ""
  /\ outputDirectory = ""
  /\ workerCalls = EmptyBag
  /\ ~processing
  /\ Len(progressLogs) >= 2
  /\ LastLog(progressLogs) = [message |-> RejectMessage("processFile"), type |-> "error"]

\* C11: when polling observes a terminal status the session state goes back
\* to Idle: the handler that observes it leaves the session id empty and no
\* tracked status, and a submit that starts a session starts it with no
\* status of an earlier session in processingStatus.
C11_TerminalStatusResetsSession ==
  [][ /\ (lastOp'.op = "pollResolved" /\ StatusEndsSession(lastOp'.status))
         => /\ currentSessionId' = ""
            /\ processingStatus' = NoStatus
      /\ (lastOp'.op \in SubmitEntries /\ processing')
         => processingStatus' = NoStatus
    ]_vars

\* C12: once ngOnDestroy has run the handle is null and no interval timer is
\* live, so no poll tick is issued afterwards (a live timer fires every
\* 500 ms), whatever state the session was in at teardown.
C12_TeardownStopsPolling ==
  destroyed => (progressInterval = 0 /\ timers = {})

LastEntries(logs, n) ==
  IF Len(logs) > n THEN SubSeq(logs, Len(logs) - n + 1, Len(logs)) ELSE logs

IsPrefix(s, t) == Len(s) <= Len(t) /\ SubSeq(t, 1, Len(s)) = s

\* add_config_log calls awaiting their reply
MirrorCalls(calls) ==
  LET S == {c \in BagToSet(calls) : c.cmd = "add_config_log"}
  IN [c \in S |-> calls[c]]

\* debug_and_repair_config calls of performAutomaticRepair awaiting their reply
RepairsInFlight ==
  LET S == {c \in BagToSet(storeCalls) :
              c.cmd = "debug_and_repair_config" /\ c.from = "performAutomaticRepair"}
  IN BagCardinality([c \in S |-> storeCalls[c]])

StoreReplyOps ==
  {"mirrorResolved", "mirrorRejected", "loadResolved", "loadRejected",
   "repairResolved", "repairRejected"}

\* C13: after any sequence of addLog calls the transient log has at most 100
\* entries and is the last 100 accepted entries, in the order of the calls
\* (the oldest are the ones evicted).
C13_LogCappedFifo ==
  /\ Len(progressLogs) <= MaxTransientLogs
  /\ progressLogs = LastEntries(hist.accepted, MaxTransientLogs)

\* C13 witness: more than 100 entries were accepted and the log is full.
C13_Witness ==
  /\ lastOp.op = "addLog"
  /\ Len(hist.accepted) > MaxTransientLogs
  /\ Len(progressLogs) = MaxTransientLogs
  /\ LastLog(progressLogs) = [message |-> lastOp.message, type |-> lastOp.type]

\* C14: an addLog of kind progress whose message is that of the last entry,
\* itself of kind progress, leaves the log as it is; every other addLog call
\* appends exactly one entry (evicting the oldest one of a full log).
C14_ProgressDeduplicated ==
  [][ lastOp'.op = "addLog"
        => LET entry == [message |-> lastOp'.message, type |-> lastOp'.type]
           IN IF /\ entry.type = "progress"
                 /\ Len(progressLogs) > 0
                 /\ LastLog(progressLogs) = entry
                THEN progressLogs' = progressLogs
                ELSE /\ Len(progressLogs') > 0
                     /\ LastLog(progressLogs') = entry
                     /\ progressLogs' =
                          LastEntries(Append(progressLogs, entry), MaxTransientLogs)
                     /\ Len(progressLogs) < MaxTransientLogs
                          => Len(progressLogs') = Len(progressLogs) + 1
    ]_vars

\* C14 witness: a progress call repeated the last entry and was dropped.
C14_Witness ==
  /\ lastOp.op = "addLog"
  /\ lastOp.type = "progress"
  /\ lastOp.duplicate
  /\ LastLog(progressLogs) = [message |-> lastOp.message, type |-> "progress"]
  /\ Len(hist.accepted) < nEvents + MaxTransientLogs

\* C15: no add_config_log call is ever issued for an entry of kind progress.
C15_ProgressNeverPersisted ==
  \A c \in BagToSet(storeCalls) :
    c.cmd = "add_config_log" => c.logType # "progress"

\* C15 witness: a poll put a progress entry in the transient log, next to
\* entries that were mirrored.
C15_Witness ==
  /\ lastOp.op = "pollResolved"
  /\ \E i \in DOMAIN progressLogs : progressLogs[i].type = "progress"
  /\ \E c \in BagToSet(storeCalls) : c.cmd = "add_config_log"

\* C16: every addLog call that is not a duplicate has its entry at the end of
\* the transient log when it returns, mirrored or suppressed; no reply of the
\* store, success or failure, takes an entry out of the log (replies only
\* append).
C16_AppendIndependentOfMirror ==
  [][ /\ (lastOp'.op = "addLog" /\ ~lastOp'.duplicate)
         => /\ Len(progressLogs') > 0
            /\ LastLog(progressLogs') = [message |-> lastOp'.message, type |-> lastOp'.type]
      /\ lastOp'.op \in {"mirrorResolved", "mirrorRejected"}
         => progressLogs' = progressLogs
      /\ (lastOp'.op \in StoreReplyOps /\ Len(progressLogs') < MaxTransientLogs)
         => IsPrefix(progressLogs, progressLogs')
    ]_vars

\* C16 witness: the mirroring call of an entry was rejected and the entry is
\* in the transient log.
C16_Witness ==
  /\ lastOp.op = "mirrorRejected"
  /\ \E i \in DOMAIN progressLogs :
       progressLogs[i] = [message |-> lastOp.call.message, type |-> lastOp.call.logType]

\* C17: while the repair flag is set nothing is mirrored: a step that starts
\* or ends with isRepairingConfig set (addLog, addPersistentLog, the repair
\* entry itself) issues no add_config_log call.
C17_NoMirrorWhileRepairing ==
  [][ (isRepairingConfig \/ isRepairingConfig')
        => MirrorCalls(storeCalls') = MirrorCalls(storeCalls)
    ]_vars

\* C17 witness: addPersistentLog was called with the flag set, for an entry
\* of a kind that is mirrored otherwise, and no add_config_log call exists.
C17_Witness ==
  /\ lastOp.op = "addPersistentLog"
  /\ lastOp.type = "error"
  /\ isRepairingConfig
  /\ MirrorCalls(storeCalls) = EmptyBag

\* C18: a failure while addPersistentLog runs, of its add_config_log call or
\* of the reload that follows it, appends no Error entry and leads to no
\* further add_config_log call.
C18_MirrorFailureNotLogged ==
  [][ (\/ lastOp'.op = "mirrorRejected"
       \/ lastOp'.op = "loadRejected" /\ lastOp'.call.from = "addPersistentLog")
        => /\ ErrorCount(progressLogs') = ErrorCount(progressLogs)
           /\ BagCardinality(MirrorCalls(storeCalls'))
                <= BagCardinality(MirrorCalls(storeCalls))
    ]_vars

\* C19: a rejected add_config_log call does not run the repair: it changes no
\* field and issues no store call; it defers exactly one performAutomaticRepair
\* when its error has a corruption signature and no repair is running, and
\* none otherwise.
C19_CorruptionDefersOneRepair ==
  [][ lastOp'.op = "mirrorRejected"
        => LET error == lastOp'.error
               corruption ==
                 \/ "UTF-8" \in error.message
                 \/ /\ "licitacao360_config.json" \in error.details
                    /\ \/ "deserializar" \in error.message
                       \/ "trailing characters" \in error.message
           IN /\ storeCalls' = storeCalls (-) SetToBag({lastOp'.call})
              /\ UNCHANGED <<isRepairingConfig, progressLogs>>
              /\ pendingRepairs' =
                   IF corruption /\ ~isRepairingConfig
                     THEN pendingRepairs + 1
                     ELSE pendingRepairs
    ]_vars

\* C19 witness: a mirroring call failed with a corrupted-file error while no
\* repair was running, and one repair is deferred.
C19_Witness ==
  /\ lastOp.op = "mirrorRejected"
  /\ "licitacao360_config.json" \in lastOp.error.details
  /\ "deserializar" \in lastOp.error.message
  /\ ~isRepairingConfig
  /\ pendingRepairs = 1

\* C20: performAutomaticRepair entered with the flag set returns at once: no
\* store call, the flag and the log as they were. Entered with the flag
\* clear it sets the flag and issues the repair call in the same run, so at
\* most one repair call of performAutomaticRepair is ever in flight.
C20_RepairGate ==
  /\ [](RepairsInFlight <= 1)
  /\ [][ lastOp'.op = "performAutomaticRepair"
           => IF isRepairingConfig
                THEN UNCHANGED <<storeCalls, isRepairingConfig, progressLogs>>
                ELSE /\ isRepairingConfig'
                     /\ RepairsInFlight' = 1
       ]_vars

\* C20 witness: a second performAutomaticRepair was skipped while the call of
\* the first is in flight.
C20_Witness ==
  /\ lastOp.op = "performAutomaticRepair"
  /\ lastOp.skipped
  /\ isRepairingConfig
  /\ RepairsInFlight = 1

\* debug_and_repair_config calls awaiting their reply, whoever made them
RepairCalls ==
  LET S == {c \in BagToSet(storeCalls) : c.cmd = "debug_and_repair_config"}
  IN BagCardinality([c \in S |-> storeCalls[c]])

\* C21: the repair coordinator is the single gate: whenever a call of
\* debug_and_repair_config is in flight, whichever method made it, the
\* repair flag is set and the call is the only one in flight.
C21_SingleRepairGate ==
  RepairCalls > 0 => (isRepairingConfig /\ RepairCalls = 1)

\* C22: every repair that sets the flag clears it again, whether the repair
\* call resolves with success, resolves with a failure or rejects, and the
\* flag is set only while the debug_and_repair_config call of
\* performAutomaticRepair is outstanding.
C22_FlagEventuallyCleared ==
  /\ [](isRepairingConfig => RepairsInFlight = 1)
  /\ (isRepairingConfig ~> ~isRepairingConfig)

\* C22 witness: the reply to the repair call of performAutomaticRepair has
\* been handled and the flag, set while the call was out, is clear again.
C22_Witness ==
  /\ lastOp.op \in {"repairResolved", "repairRejected"}
  /\ lastOp.call.from = "performAutomaticRepair"
  /\ ~isRepairingConfig
  /\ RepairsInFlight = 0

\* C23: corruption recovery never loops: when the reload that
\* repairConfiguration makes after a repair fails, whatever the error, no
\* further debug_and_repair_config call is issued.
C23_RecoveryNeverLoops ==
  [][ (lastOp'.op = "loadRejected" /\ lastOp'.call.from = "repairConfiguration")
        => RepairCalls' <= RepairCalls
    ]_vars

HasLog(message) ==
  \E i \in DOMAIN progressLogs : progressLogs[i].message = message

\* initialisation failed, the repair it awaited succeeded and its retry
\* succeeded: the two log lines that only this course writes are there
InitRecovered ==
  /\ HasLog("Reparo automatico executado com sucesso")
  /\ HasLog("Aplicacao inicializada com sucesso apos reparo")

\* C24: when initialisation failed with a corruption signature, the repair
\* succeeded and the retry succeeded, the repair has run once and for all: a
\* repair that the mirroring of a log line of this initialisation deferred
\* issues no further debug_and_repair_config call and does not set the flag,
\* back to false, a second time.
C24_OneRepairPerRecovery ==
  [][ (InitRecovered /\ lastOp'.op = "performAutomaticRepair")
        => /\ RepairCalls' <= RepairCalls
           /\ isRepairingConfig' => isRepairingConfig
    ]_vars

\* C25: a configuration load or save failure that is not classified as
\* corruption never triggers the repair primitive and is surfaced as an Error
\* log entry: the handler of such a rejection issues no
\* debug_and_repair_config call and appends one entry of kind error.
C25_PlainFailureSurfaced ==
  [][ (\/ lastOp'.op = "loadRejected" /\ ~IsCorruption(lastOp'.error)
       \/ lastOp'.op = "configCallRejected" /\ lastOp'.call.cmd = "save_app_config")
        => /\ RepairCalls' <= RepairCalls
           /\ Len(progressLogs') = Len(progressLogs) + 1
           /\ LastLog(progressLogs').type = "error"
    ]_vars

\* the classification rule: invalid text encoding or a structural
\* deserialization failure, and details that name the configuration file
RuleCorruption(error) ==
  /\ \/ Includes(error.message, "UTF-8")
     \/ Includes(error.message, "deserializar")
     \/ Includes(error.message, "trailing characters")
  /\ Includes(error.details, "licitacao360_config.json")

\* the step treated the error it handled as corruption: initialisation wrote
\* its corruption line, loadConfiguration called repairConfiguration,
\* addPersistentLog deferred a repair
TreatedAsCorruption ==
  CASE lastOp'.op = "initRejected" ->
         /\ Len(progressLogs') > Len(progressLogs)
         /\ progressLogs'[Len(progressLogs) + 1].message =
              "Configuracao corrompida detectada, executando reparo automatico..."
    [] lastOp'.op = "loadRejected" -> RepairCalls' > RepairCalls
    [] lastOp'.op = "mirrorRejected" -> pendingRepairs' = pendingRepairs + 1

\* C26: the three detection sites classify an error as corruption exactly
\* when the rule does: the first rejection of initialize_application, a
\* rejection of load_app_config and, with no repair running, a rejection of
\* add_config_log are treated as corruption if and only if the error carries
\* an encoding or deserialization marker and its details name the file.
C26_ClassificationRule ==
  [][ (\/ lastOp'.op = "initRejected" /\ lastOp'.call.attempt = 1
       \/ lastOp'.op = "loadRejected"
       \/ lastOp'.op = "mirrorRejected" /\ ~isRepairingConfig)
        => (TreatedAsCorruption <=> RuleCorruption(lastOp'.error))
    ]_vars

StoreCommands ==
  {"add_config_log", "load_app_config", "update_config_directories",
   "update_config_verbose", "save_app_config", "clear_config_logs",
   "debug_and_repair_config"}

\* round trips to the configuration store awaiting their reply
StoreRoundTrips ==
  LET S == {c \in BagToSet(storeCalls) : c.cmd \in StoreCommands}
  IN BagCardinality([c \in S |-> storeCalls[c]])

\* C27: access to the configuration store is serialized: at most one round
\* trip to the store is in flight at any time.
C27_StoreSerialized == StoreRoundTrips <= 1

FailureOps ==
  {"configCallRejected", "loadRejected", "repairRejected", "mirrorRejected",
   "pollRejected", "submitRejected", "defaultDirectoryRejected"}

\* C29: every failed worker or store call produces a line in the transient
\* log: the handler of a rejection appends an entry.
C29_EveryFailureLogged ==
  [][ lastOp'.op \in FailureOps => Len(progressLogs') > Len(progressLogs) ]_vars

WorkerCallOut(calls, cmd) == \E c \in BagToSet(calls) : c.cmd = cmd

\* the step runs "Set directories from config or defaults" for the PDF
\* folder: it ends at one of the three worker calls that follow that test
ResolvesInput ==
  /\ lastOp'.op \in {"initResolved", "initRejected", "loadResolved", "loadRejected",
                     "repairResolved", "repairRejected", "directoriesInfoSettled"}
  /\ \E cmd \in {"get_default_pdf_directory", "get_default_output_directory",
                 "list_pdf_files"} :
       WorkerCallOut(workerCalls', cmd) /\ ~WorkerCallOut(workerCalls, cmd)

\* the step runs the same test for the results folder
ResolvesOutput ==
  \/ ResolvesInput /\ ConfigField(appConfig', "last_input_directory") # ""
  \/ /\ lastOp'.op \in {"defaultDirectoryResolved", "defaultDirectoryRejected"}
     /\ lastOp'.call.cmd = "get_default_pdf_directory"

\* the first entry the step appended is of kind error
AppendsError ==
  /\ Len(progressLogs') > Len(progressLogs)
  /\ progressLogs'[Len(progressLogs) + 1].type = "error"

\* C30: at initialisation each folder is the persisted last_*_directory when
\* the loaded configuration has a non-empty one, and then the worker is not
\* asked; otherwise the worker's default is requested and the folder is left
\* as it is until the reply: the default when the request resolves, unchanged
\* with an Error entry appended when it rejects.
C30_DirectoryResolution ==
  [][ /\ ResolvesInput =>
           IF ConfigField(appConfig', "last_input_directory") # ""
             THEN /\ pdfDirectory' = appConfig'.last_input_directory
                  /\ ~WorkerCallOut(workerCalls', "get_default_pdf_directory")
             ELSE /\ WorkerCallOut(workerCalls', "get_default_pdf_directory")
                  /\ pdfDirectory' = pdfDirectory
      /\ ResolvesOutput =>
           IF ConfigField(appConfig', "last_output_directory") # ""
             THEN /\ outputDirectory' = appConfig'.last_output_directory
                  /\ ~WorkerCallOut(workerCalls', "get_default_output_directory")
             ELSE /\ WorkerCallOut(workerCalls', "get_default_output_directory")
                  /\ outputDirectory' = outputDirectory
      /\ lastOp'.op = "defaultDirectoryResolved" =>
           IF lastOp'.call.cmd = "get_default_pdf_directory"
             THEN pdfDirectory' = DefaultPdfDirectory
             ELSE outputDirectory' = DefaultOutputDirectory
      /\ lastOp'.op = "defaultDirectoryRejected" =>
           /\ AppendsError
           /\ IF lastOp'.call.cmd = "get_default_pdf_directory"
                THEN pdfDirectory' = pdfDirectory
                ELSE outputDirectory' = outputDirectory
    ]_vars

\* C30 witness: the PDF folder came from the loaded configuration, the
\* results folder had none saved, and the request for its default failed.
C30_Witness ==
  /\ lastOp.op = "defaultDirectoryRejected"
  /\ lastOp.call.cmd = "get_default_output_directory"
  /\ appConfig # NoConfig
  /\ appConfig.last_input_directory = InputDir
  /\ pdfDirectory = InputDir
  /\ appConfig.last_output_directory = ""
  /\ outputDirectory = ""

(* -------------- specifications of the sibling components --------------- *)
\* Folder selection: the two instances of the child and the host's handlers
\* of their events.
FolderNext ==
  \/ SelecionarPasta
  \/ DialogResolved
  \/ DialogRejected
  \/ PastaSaveResolved
  \/ PastaSaveRejected

FolderSpec == Init /\ [][FolderNext]_vars

\* Folder selection with the replies to the host's own store calls, for
\* MaxSelections clicks.
DirNext ==
  \/ (nEvents < MaxSelections /\ SelecionarPasta)
  \/ DialogResolved
  \/ DialogRejected
  \/ PastaSaveResolved
  \/ PastaSaveRejected
  \/ DirectoriesResolved
  \/ DirectoriesRejected
  \/ LoadResolved

DirSpec == Init /\ [][DirNext]_vars

\* SICAF processing: starts from an empty log, a log one entry short of the
\* cap and a full log.
SicafStart ==
  /\ HomologacaoInit
  /\ PastaInit
  /\ NavigationInit
  /\ RelacaoInit
  /\ TermoInit
  /\ isProcessing = FALSE
  /\ processedCount = 0
  /\ pdfCount = 0
  /\ sicafLogs \in {FilledSicafLog(n) : n \in {0, MaxSicafLogs - 1, MaxSicafLogs}}
  /\ sicafCalls = EmptyBag

SicafNext ==
  \/ ProcessSicafPdfs
  \/ SicafResolved
  \/ SicafRejected
  \/ SicafDirectoryResolved
  \/ PdfCountResolved
  \/ PdfCountRejected
  \/ ClearLogs

SicafSpec == SicafStart /\ [][SicafNext]_vars

\* Navigation: the service and the sidebar.
NavigationNext ==
  \/ SetCurrentPage
  \/ selectMenuItem
  \/ toggleSidebarOpen
  \/ toggleSidebar

NavigationSpec == Init /\ [][NavigationNext]_vars

\* The list of PDF files: any listing, any search term and any prior
\* selection among the listed files.
RelacaoStart ==
  /\ HomologacaoInit
  /\ PastaInit
  /\ SicafInit
  /\ NavigationInit
  /\ TermoInit
  /\ availablePdfFiles \in PdfFileLists
  /\ searchTerm \in SearchTerms
  /\ selectedFiles \in SUBSET FilePaths(availablePdfFiles)

RelacaoNext ==
  \/ SelectAllFiles
  \/ toggleFileSelection
  \/ SetSearchTerm

RelacaoSpec == RelacaoStart /\ [][RelacaoNext]_vars

\* The table of the terms of reference, loaded from localStorage.
TermoStart ==
  /\ HomologacaoInit
  /\ PastaInit
  /\ SicafInit
  /\ NavigationInit
  /\ RelacaoInit
  /\ termosReferencia \in TermoTables
  /\ localStorage = termosReferencia
  /\ selectedIndex = -1
  /\ editingItem = FALSE
  /\ itemEdicao = BlankRow
  /\ editedRow = -1
  /\ strayWrites = {}

TermoNext ==
  \/ selectRow
  \/ editarItem
  \/ EditField
  \/ removerItem
  \/ salvarEdicao
  \/ cancelarEdicao

TermoSpec == TermoStart /\ [][TermoNext]_vars

(* ------------------------- claims C31 to C38 --------------------------- *)
\* C32: the processing flag reflects the submits in flight: processing is
\* true exactly when at least one submit has an outstanding worker call, so
\* the completion of one submit never clears it while another is outstanding.
C32_ProcessingReflectsSubmits == processing <=> (SubmitsInFlight > 0)

\* C33: no polling timer is orphaned: at most one interval timer is live and
\* it is the one the handle progressInterval names, so that
\* stopProgressMonitoring stops every live timer.
C33_NoOrphanTimer ==
  /\ Cardinality(timers) <= 1
  /\ \A t \in timers : t.id = progressInterval

\* store calls that a folder selection leads to and that await their reply
DirectoryCalls ==
  {c \in BagToSet(storeCalls) :
     \/ c.cmd = "update_config_directories"
     \/ c.cmd \in PastaCommands
     \/ (c.cmd = "load_app_config" /\ c.caller = "updateDirectoriesConfig")}

\* every selection has ended and every store call it led to has completed
DirectoriesSettled ==
  /\ \A t \in PastaTypes : dialogs[t] = 0 /\ ~isSelecting[t]
  /\ DirectoryCalls = {}

\* C31: user directory changes are persisted: once every store call that the
\* manual changes led to has completed, in whatever order, the stored
\* last_input_directory and last_output_directory are the component's
\* pdfDirectory and outputDirectory.
C31_DirectoriesPersisted ==
  DirectoriesSettled
    => /\ configStore.last_input_directory = pdfDirectory
       /\ configStore.last_output_directory = outputDirectory

\* update calls of the instance of one pastaType that await their reply
PastaCalls(pastaType) ==
  LET S == {c \in BagToSet(storeCalls) :
              c.cmd \in PastaCommands /\ c.pastaType = pastaType}
  IN BagCardinality([c \in S |-> storeCalls[c]])

\* a selection of the instance is in progress: its dialog is open or its
\* update call awaits the reply
SelectionInProgress(pastaType) ==
  dialogs[pastaType] + PastaCalls(pastaType) > 0

\* C34: folder selection is single-flight: selecionarPasta invoked while
\* disabled or while a selection of the instance is in progress opens no
\* dialog, emits no event and calls no store command; an instance has at most
\* one selection in progress, and isSelecting is true exactly while it has one
\* (so every exit path has reset it).
C34_SelectionSingleFlight ==
  /\ [](\A t \in PastaTypes :
          /\ dialogs[t] + PastaCalls(t) <= 1
          /\ isSelecting[t] <=> SelectionInProgress(t))
  /\ [][(/\ lastOp'.op = "selecionarPasta"
         /\ lastOp'.disabled \/ SelectionInProgress(lastOp'.pastaType))
          => UNCHANGED <<dialogs, isSelecting, storeCalls, progressLogs,
                         pdfDirectory, outputDirectory, configStore>>]_vars

\* selecionarPasta was invoked, not disabled, on an instance whose selection
\* is in progress, and returned
C34_Witness ==
  /\ lastOp.op = "selecionarPasta"
  /\ ~lastOp.disabled
  /\ lastOp.returned
  /\ isSelecting[lastOp.pastaType]
  /\ SelectionInProgress(lastOp.pastaType)

\* process_sicaf_pdfs calls that await their reply
SicafInFlight == CopiesIn([cmd |-> "process_sicaf_pdfs"], sicafCalls)

\* the handlers of DadosEmpresasComponent whose state records what they logged
SicafOps ==
  {"processSicafPdfs", "sicafResolved", "sicafRejected",
   "sicafDirectoryResolved", "pdfCountResolved", "pdfCountRejected"}

\* the sequence in reverse order
Reversed(seq) == [i \in DOMAIN seq |-> seq[Len(seq) + 1 - i]]

\* C35: SICAF processing is single-flight: processSicafPdfs invoked while
\* isProcessing is true calls no worker command and leaves processedCount (and
\* the log) alone; isProcessing is true exactly while the call is outstanding,
\* so every exit path has reset it; the log never holds more than 50 entries
\* and is kept newest first: after a handler has logged, the log starts with
\* what it logged, the last message first, followed by the entries the log
\* held before, in their order, as far as the cap allows.
C35_SicafSingleFlight ==
  /\ [](/\ SicafInFlight <= 1
        /\ isProcessing <=> (SicafInFlight = 1)
        /\ Len(sicafLogs) <= MaxSicafLogs)
  /\ [][(lastOp'.op = "processSicafPdfs" /\ isProcessing)
          => UNCHANGED <<sicafCalls, processedCount, isProcessing, sicafLogs,
                         pdfCount>>]_vars
  /\ [][lastOp'.op \in SicafOps
          => LET n == Len(lastOp'.logged)
                 kept == IF Len(sicafLogs) + n > MaxSicafLogs
                           THEN MaxSicafLogs - n
                           ELSE Len(sicafLogs)
             IN sicafLogs' =
                  Reversed(lastOp'.logged) \o SubSeq(sicafLogs, 1, kept)]_vars

\* processSicafPdfs was invoked while a call was outstanding and returned,
\* the log being full
C35_Witness ==
  /\ lastOp.op = "processSicafPdfs"
  /\ lastOp.returned
  /\ isProcessing
  /\ SicafInFlight = 1
  /\ Len(sicafLogs) = MaxSicafLogs

\* getCurrentPage()
getCurrentPage == currentPageSubject

\* C36: the current page is always a known menu item: setCurrentPage with an
\* id that no menu item has, called on the service or through selectMenuItem,
\* leaves the current page unchanged and emits nothing, so getCurrentPage
\* returns the id of a menu item after any sequence of calls.
C36_CurrentPageKnown ==
  /\ [](getCurrentPage \in MenuItemIds)
  /\ [][(/\ lastOp'.op \in {"setCurrentPage", "selectMenuItem"}
         /\ lastOp'.pageId \notin MenuItemIds)
          => UNCHANGED <<currentPageSubject, pageEmissions>>]_vars
  /\ [][(/\ lastOp'.op \in {"setCurrentPage", "selectMenuItem"}
         /\ lastOp'.pageId \in MenuItemIds)
          => /\ currentPageSubject' = lastOp'.pageId
             /\ pageEmissions' = pageEmissions + 1]_vars

\* setCurrentPage was called with an unknown id after the page had been
\* changed, and the page is still the one chosen before
C36_Witness ==
  /\ lastOp.op = "setCurrentPage"
  /\ lastOp.pageId = "relatorios"
  /\ currentPageSubject = "configuracoes"
  /\ pageEmissions = 2

\* the paths of the files the list displays under the current search term
FilteredPaths == FilePaths(getFilteredFiles(availablePdfFiles, searchTerm))

\* C37: selectAllFiles toggles over the filtered list: when every filtered
\* file is already selected the call clears the selection, otherwise every
\* filtered file is selected after the call, for any prior selection and any
\* search term.
C37_SelectAllToggles ==
  [][lastOp'.op = "selectAllFiles"
      => IF FilteredPaths \subseteq selectedFiles
           THEN selectedFiles' = {}
           ELSE FilteredPaths \subseteq selectedFiles']_vars

\* C38: saving an edit replaces exactly the row that was opened for editing:
\* whatever selectRow and removerItem calls came between editarItem and
\* salvarEdicao, a salvarEdicao that saves writes the form's values to the row
\* editarItem copied, leaves every other row alone and writes nothing outside
\* the bounds of the list.
C38_SaveReplacesEditedRow ==
  [][(lastOp'.op = "salvarEdicao" /\ lastOp'.saved)
      => /\ editedRow \in 0..(Len(termosReferencia) - 1)
         /\ termosReferencia' =
              [termosReferencia EXCEPT ![editedRow + 1] = itemEdicao]
         /\ strayWrites' = strayWrites]_vars

====
